---- MODULE Spec2Model ----
(***************************************************************************)
(* The ACP reply projector (auto-reply/reply/acp-projector.ts) with its    *)
(* projection settings (acp-stream-settings.ts).  Text is a sequence of    *)
(* one-character strings; an absent string field is None, an absent        *)
(* string-valued fingerprint is Undefined, an absent number is NoNum.      *)
(***************************************************************************)
EXTENDS Integers, Sequences, FiniteSets, TLC

VARIABLES
  settings,                 \* resolved AcpProjectionSettings + shouldSendToolSummaries
  emittedTurnChars,
  emittedMetaEvents,
  truncationNoticeEmitted,
  lastStatusHash,
  lastToolHash,
  lastUsageTuple,
  lastVisibleOutputTail,
  pendingHiddenBoundary,
  liveBufferText,
  liveIdleTimer,            \* TRUE while a setTimeout handle is pending
  pendingToolDeliveries,
  toolLifecycleById,
  chunkerBuffer,            \* text appended to the chunker and not yet drained
  out,                      \* collaborator calls made by the last operation, in order
  lastEvent,                \* the last operation the host invoked
  pre,                      \* the turn state the last operation started from
  accepted,                 \* text the last operation handed to the live buffer / chunker
  sepInserted,              \* the last operation prefixed its fragment with the separator
  seenBefore,               \* the last tool event's id was in terminalSeen before it
  sameAsPrev,               \* the last operation repeated the tool event before it
  prevProduced,             \* payloads produced by the first event of such a pair
  nEvents,                  \* operations since the turn started
  turnAcceptedChars,        \* characters handed to the live buffer / chunker this turn
  turnAcceptedText,         \* the text handed to the live buffer / chunker this turn
  turnEnqueuedText,         \* the text of the chunks enqueued to the pipeline this turn
  turnTruncated,            \* a visible fragment of this turn was cut or dropped
  turnNotices,              \* truncation notices passed to deliver this turn
  turnNoticesProduced,      \* truncation notices delivered at once or queued this turn
  lastStatusProduced,       \* text of the last status payload produced this turn
  prevStatusProduced,       \* the same, before the last operation
  usageSeen,                \* the last visible usage_update event of the turn
  prevUsageSeen,            \* the same, before the last operation
  turnNonForced,            \* non-forced tool/status payloads produced this turn
  threw,                    \* the last operation ended with the exception of deliver
  toolStart,                \* the turn's first operation and its calls, when it started
                            \* a tool and the last operation is the turn's second
  terminalSeen,             \* ids for which a visible terminal tool event was processed
  startProduced,            \* ids for which a start event produced a payload this turn
  startedBefore,            \* the last tool event's id was in startProduced before it
  awaits,                   \* timer and live buffer at each await of a collaborator in the last operation
  cfg,                      \* cfg.acp.stream as the host wrote it, before it is resolved
  tagQuery,                 \* the tag last passed to isAcpTagVisible
  tagVisible,               \* what isAcpTagVisible returned for it
  startBehaviour,           \* what client.start() does: throws, rejects, fulfils, never settles
  graceMsParam,             \* params.graceMs, NoNum when absent
  hasOnError,               \* params.onError is given
  gracePc,                  \* startMatrixClientWithGrace: not called, waiting for the timer, settled
  startPromise,             \* the promise client.start() returned
  startFailed,
  startError,
  now,                      \* the clock, in ms
  graceDeadline,            \* when the grace timer is due, NoNum while it is not set
  outcome,                  \* the promise startMatrixClientWithGrace returned
  onErrorCalls,             \* the errors passed to params.onError, in order
  calledAt,                 \* when startMatrixClientWithGrace was called
  startRejectedAt,          \* when the start promise rejected
  rejectedAfterSettle,      \* the start promise rejected after the outcome was settled
  tracker,                  \* a direct-room tracker: its option and the closure's variables
  dmClock,                  \* Date.now() as the tracker sees it
  matrixClient,             \* what the Matrix client answers to the tracker
  dmCheck,                  \* the last isDirectMessage call: params, calls, result
  configFile,               \* the configuration file on disk
  isNixMode,                \* the process runs in Nix mode
  gwPc,                     \* where prepareGatewayStartupConfig stands
  gwSnapshot,               \* its local variable snapshot
  gwTrace,                  \* reads, writes, validations and log lines of the run, in order
  gwOutcome                 \* what the run returned or threw

progVars == <<emittedTurnChars, emittedMetaEvents, truncationNoticeEmitted,
              lastStatusHash, lastToolHash, lastUsageTuple, lastVisibleOutputTail,
              pendingHiddenBoundary, liveBufferText, liveIdleTimer,
              pendingToolDeliveries, toolLifecycleById, chunkerBuffer>>

histVars == <<out, lastEvent, pre, accepted, sepInserted, seenBefore, sameAsPrev, prevProduced, nEvents,
              turnAcceptedChars, turnAcceptedText, turnEnqueuedText, turnTruncated, turnNotices, turnNoticesProduced,
              lastStatusProduced, prevStatusProduced, usageSeen, prevUsageSeen,
              turnNonForced, threw, toolStart, terminalSeen,
              startProduced, startedBefore, awaits>>

cfgVars == <<cfg, tagQuery, tagVisible>>

matrixVars == <<startBehaviour, graceMsParam, hasOnError, gracePc, startPromise,
                startFailed, startError, now, graceDeadline, outcome, onErrorCalls,
                calledAt, startRejectedAt, rejectedAfterSettle>>

trackerVars == <<tracker, dmClock, matrixClient, dmCheck>>

gatewayVars == <<configFile, isNixMode, gwPc, gwSnapshot, gwTrace, gwOutcome>>

hostVars == <<trackerVars, gatewayVars>>

vars == <<settings, progVars, histVars, cfgVars, matrixVars, hostVars>>

None == "<none>"
Undefined == <<"<undefined>">>
NoNum == -1

-----------------------------------------------------------------------------
(* Bounds of the model *)

MaxTurnCharsCfg == 3
MaxMetaCfg == 2
MaxEvents == 3
MaxFailAt == 2
MaxClockSteps == 4
MaxDmClockSteps == 2

-----------------------------------------------------------------------------
(* Program constants *)

ACP_LIVE_IDLE_MIN_CHARS == 80
ACP_LIVE_SOFT_FLUSH_CHARS == 220
ACP_LIVE_HARD_FLUSH_CHARS == 480
DEFAULT_ACP_MAX_TOOL_SUMMARY_CHARS == 320
DEFAULT_ACP_MAX_STATUS_CHARS == 320
DEFAULT_ACP_MAX_TURN_CHARS == 24000

TERMINAL_TOOL_STATUSES == {"completed", "failed", "cancelled", "done", "error"}
HIDDEN_BOUNDARY_TAGS == {"tool_call", "tool_call_update"}

ACP_TAG_VISIBILITY_DEFAULTS ==
  [agent_message_chunk |-> TRUE, tool_call |-> FALSE, tool_call_update |-> FALSE,
   usage_update |-> FALSE, available_commands_update |-> FALSE,
   current_mode_update |-> FALSE, config_option_update |-> FALSE,
   session_info_update |-> FALSE, plan |-> FALSE, agent_thought_chunk |-> FALSE]

-----------------------------------------------------------------------------
(* String helpers (JavaScript string semantics on character sequences) *)

IsWhitespace(c) == c \in {" ", "\n", "\t"}

RECURSIVE TrimStart(_)
TrimStart(s) ==
  IF s = <<>> THEN <<>>
  ELSE IF IsWhitespace(Head(s)) THEN TrimStart(Tail(s)) ELSE s

RECURSIVE TrimEnd(_)
TrimEnd(s) ==
  IF s = <<>> THEN <<>>
  ELSE IF IsWhitespace(s[Len(s)]) THEN TrimEnd(SubSeq(s, 1, Len(s) - 1)) ELSE s

Trim(s) == TrimEnd(TrimStart(s))

\* input.slice(0, n)
Slice0(s, n) == SubSeq(s, 1, IF n < Len(s) THEN (IF n < 0 THEN 0 ELSE n) ELSE Len(s))

\* input.slice(-1)
SliceLast(s) == IF s = <<>> THEN <<>> ELSE <<s[Len(s)]>>

truncateText(input, maxChars) ==
  IF Len(input) <= maxChars THEN input
  ELSE IF maxChars <= 1 THEN Slice0(input, maxChars)
  ELSE Slice0(input, maxChars - 1) \o <<"[ellipsis]">>

hashText(text) == Trim(text)

\* status.trim() and .toLowerCase() on the status strings the model feeds
TrimStr(s) == IF s = " Completed " THEN "Completed" ELSE s
LowerStr(s) == IF s = "Completed" THEN "completed" ELSE s

normalizeToolStatus(status) ==
  IF status = None \/ status = "" THEN None
  ELSE LET normalized == LowerStr(TrimStr(status))
       IN IF normalized = "" THEN None ELSE normalized

resolveHiddenBoundarySeparatorText(mode) ==
  IF mode = "space" THEN <<" ">>
  ELSE IF mode = "newline" THEN <<"\n">>
  ELSE IF mode = "paragraph" THEN <<"\n", "\n">>
  ELSE <<>>

\* shouldInsertSeparator without the test for a tail that already ends in a newline
shouldInsertSeparator_NoNewlineTest(separator, previousTail, nextText) ==
  IF separator = <<>> THEN FALSE
  ELSE IF nextText = <<>> THEN FALSE
  ELSE IF IsWhitespace(nextText[1]) THEN FALSE
  ELSE LET tail == IF previousTail = Undefined THEN <<>> ELSE previousTail
       IN IF tail = <<>> THEN FALSE
          ELSE IF separator = <<" ">> /\ IsWhitespace(tail[Len(tail)]) THEN FALSE
          ELSE TRUE

shouldInsertSeparator(separator, previousTail, nextText) ==
  IF separator = <<>> THEN FALSE
  ELSE IF nextText = <<>> THEN FALSE
  ELSE IF IsWhitespace(nextText[1]) THEN FALSE
  ELSE LET tail == IF previousTail = Undefined THEN <<>> ELSE previousTail
       IN IF tail = <<>> THEN FALSE
          ELSE IF separator = <<" ">> /\ IsWhitespace(tail[Len(tail)]) THEN FALSE
          ELSE IF (separator = <<"\n">> \/ separator = <<"\n", "\n">>)
                  /\ tail[Len(tail)] = "\n" THEN FALSE
          ELSE TRUE

\* the regular expression of lines 116 and 132 without its trailing \s: the text
\* ends with . ! or ? followed only by closing brackets or quotes
SentenceClosers == {")", "squote", "bquote", "dquote"}

RECURSIVE EndsWithSentence(_)
EndsWithSentence(s) ==
  IF s = <<>> THEN FALSE
  ELSE IF s[Len(s)] \in {".", "!", "?"} THEN TRUE
  ELSE IF s[Len(s)] \in SentenceClosers
       THEN EndsWithSentence(SubSeq(s, 1, Len(s) - 1))
  ELSE FALSE

EndsWithWhitespace(s) == s # <<>> /\ IsWhitespace(s[Len(s)])

\* shouldFlushLiveBufferOnBoundary without the test of the hard ceiling
shouldFlushLiveBufferOnBoundary_NoCeiling(text) ==
  IF text = <<>> THEN FALSE
  ELSE IF Len(text) >= 2 /\ text[Len(text)] = "\n" /\ text[Len(text) - 1] = "\n" THEN TRUE
  ELSE IF EndsWithWhitespace(text) /\ EndsWithSentence(SubSeq(text, 1, Len(text) - 1))
       THEN TRUE
  ELSE IF Len(text) >= ACP_LIVE_SOFT_FLUSH_CHARS /\ EndsWithWhitespace(text) THEN TRUE
  ELSE FALSE

shouldFlushLiveBufferOnBoundary(text) ==
  IF text = <<>> THEN FALSE
  ELSE IF Len(text) >= ACP_LIVE_HARD_FLUSH_CHARS THEN TRUE
  ELSE IF Len(text) >= 2 /\ text[Len(text)] = "\n" /\ text[Len(text) - 1] = "\n" THEN TRUE
  ELSE IF EndsWithWhitespace(text) /\ EndsWithSentence(SubSeq(text, 1, Len(text) - 1))
       THEN TRUE
  ELSE IF Len(text) >= ACP_LIVE_SOFT_FLUSH_CHARS /\ EndsWithWhitespace(text) THEN TRUE
  ELSE FALSE

shouldFlushLiveBufferOnIdle(text) ==
  IF text = <<>> THEN FALSE
  ELSE IF Len(text) >= ACP_LIVE_IDLE_MIN_CHARS THEN TRUE
  ELSE IF EndsWithSentence(TrimEnd(text)) THEN TRUE
  ELSE IF \E i \in 1..Len(text) : text[i] = "\n" THEN TRUE
  ELSE FALSE

\* formatToolSummary(resolveToolDisplay({name: "tool_call", meta})) as a token sequence
renderToolSummaryText(event) ==
  LET title == IF event.title = None THEN "" ELSE TrimStr(event.title)
      status == IF event.status = None THEN "" ELSE TrimStr(event.status)
      fallback == Trim(event.text)
      titlePart == IF title # "" THEN <<title>> ELSE <<>>
      statusPart == IF status # "" THEN <<"status=", status>> ELSE <<>>
      sepPart == IF title # "" /\ status # "" THEN <<" [middot] ">> ELSE <<>>
      detail == titlePart \o sepPart \o statusPart
      meta == IF detail # <<>> THEN detail
              ELSE IF fallback # <<>> THEN fallback
              ELSE <<"tool call">>
  IN <<"tool_call", ": ">> \o meta

\* prefixSystemMessage of infra/system-message.js: a system mark before the text
prefixSystemMessage(text) ==
  IF Trim(text) = <<>> THEN <<>> ELSE <<"System:", " ">> \o Trim(text)

DigitChars == <<"0", "1", "2", "3", "4", "5", "6", "7", "8", "9">>

RECURSIVE NumStr(_)
NumStr(n) ==
  IF n < 10 THEN <<DigitChars[n + 1]>>
  ELSE NumStr(n \div 10) \o <<DigitChars[(n % 10) + 1]>>

\* isAcpTagVisible looking at the defaults only
isAcpTagVisible_NoOverride(tag) ==
  IF tag = None THEN TRUE
  ELSE IF tag \in DOMAIN ACP_TAG_VISIBILITY_DEFAULTS THEN ACP_TAG_VISIBILITY_DEFAULTS[tag]
  ELSE TRUE

isAcpTagVisible(tag) ==
  IF tag = None THEN TRUE
  ELSE IF tag \in DOMAIN settings.tagVisibility THEN settings.tagVisibility[tag]
  ELSE IF tag \in DOMAIN ACP_TAG_VISIBILITY_DEFAULTS THEN ACP_TAG_VISIBILITY_DEFAULTS[tag]
  ELSE TRUE

-----------------------------------------------------------------------------
(* Collaborator calls and payloads *)

NoMeta == [tag |-> None, toolCallId |-> None, toolStatus |-> None, allowEdit |-> None]

\* op: "append" (chunker.append), "enqueue" (pipeline.enqueue), "pipelineFlush",
\*     "deliver" (params.deliver from an event), "buffer" (pendingToolDeliveries.push),
\*     "deliverBuffered" (params.deliver from flushBufferedToolDeliveries)
\* src and forced annotate the origin of a tool/status payload.
Call(op, kind, text, meta, src, forced) ==
  [op |-> op, kind |-> kind, text |-> text, meta |-> meta, src |-> src, forced |-> forced]

\* the turn state of one projector, as a record threaded through the helpers
St ==
  [emittedTurnChars |-> emittedTurnChars,
   emittedMetaEvents |-> emittedMetaEvents,
   truncationNoticeEmitted |-> truncationNoticeEmitted,
   lastStatusHash |-> lastStatusHash,
   lastToolHash |-> lastToolHash,
   lastUsageTuple |-> lastUsageTuple,
   lastVisibleOutputTail |-> lastVisibleOutputTail,
   pendingHiddenBoundary |-> pendingHiddenBoundary,
   liveBufferText |-> liveBufferText,
   liveIdleTimer |-> liveIdleTimer,
   pendingToolDeliveries |-> pendingToolDeliveries,
   toolLifecycleById |-> toolLifecycleById,
   chunkerBuffer |-> chunkerBuffer,
   out |-> <<>>,
   accepted |-> <<>>,
   inserted |-> FALSE,
   truncated |-> FALSE,
   failAt |-> 0,
   threw |-> FALSE,
   awaits |-> <<>>]

EmptyLifecycle == [id \in {} |-> 0]

\* the value of failAt with which blockReplyPipeline.flush throws (and no call of
\* the delivery callback does)
PipelineFlushThrows == -1

\* what the idle timer and the live buffer are while the handler is suspended in
\* an await of the collaborator call op
Suspended(s, op) == [op |-> op, timer |-> s.liveIdleTimer, buffer |-> s.liveBufferText]

\* calls of params.deliver with a tool/status payload made so far by the operation
DeliverAttempts(s) ==
  Len(SelectSeq(s.out, LAMBDA c : c.op \in {"deliver", "deliverBuffered"}))

\* await params.deliver("tool", payload, meta): the failAt-th call of the operation
\* throws (failAt = 0: none does); what follows an exception is skipped
deliverCall(s, c) ==
  [s EXCEPT !.out = Append(@, c), !.threw = (DeliverAttempts(s) + 1 = s.failAt),
            !.awaits = Append(@, Suspended(s, c.op))]

RECURSIVE deliverEach(_, _)
deliverEach(s, entries) ==
  IF entries = <<>> \/ s.threw THEN s
  ELSE deliverEach(deliverCall(s, [Head(entries) EXCEPT !.op = "deliverBuffered"]),
                   Tail(entries))

-----------------------------------------------------------------------------
(* The projector's helpers (closures of createAcpReplyProjector) *)

\* clearLiveIdleTimer leaving the timer armed
clearLiveIdleTimer_Noop(s) == s

clearLiveIdleTimer(s) == [s EXCEPT !.liveIdleTimer = FALSE]

\* streaming.chunking.minChars
ChunkMinChars == 1

\* EmbeddedBlockChunker.drain: a forced drain emits everything buffered (the texts of
\* the model are shorter than one chunk); an unforced drain emits only once the
\* buffer holds minChars characters.
chunkerDrain(s, force) ==
  IF s.chunkerBuffer = <<>> \/ (~force /\ Len(s.chunkerBuffer) < ChunkMinChars) THEN s
  ELSE [s EXCEPT !.chunkerBuffer = <<>>,
                 !.out = Append(@, Call("enqueue", "block", s.chunkerBuffer, NoMeta,
                                        "text", FALSE))]

chunkerAppend(s, text) ==
  [s EXCEPT !.chunkerBuffer = @ \o text,
            !.out = Append(@, Call("append", "block", text, NoMeta, "text", FALSE))]

\* drainChunker without the final_only guard
drainChunker_Unguarded(s, force) == chunkerDrain(s, force)

drainChunker(s, force) ==
  IF settings.deliveryMode = "final_only" /\ ~force THEN s
  ELSE chunkerDrain(s, force)

flushLiveBuffer(s, force, idle) ==
  IF settings.deliveryMode # "live" THEN s
  ELSE IF s.liveBufferText = <<>> THEN s
  ELSE IF idle /\ ~shouldFlushLiveBufferOnIdle(s.liveBufferText) THEN s
  ELSE LET text == s.liveBufferText
       IN drainChunker(chunkerAppend([s EXCEPT !.liveBufferText = <<>>], text), force)

\* scheduleLiveIdleFlush arming nothing
scheduleLiveIdleFlush_NoArm(s) == s

scheduleLiveIdleFlush(s) ==
  IF settings.deliveryMode # "live" THEN s
  ELSE IF settings.liveIdleFlushMs <= 0 \/ s.liveBufferText = <<>> THEN s
  ELSE [clearLiveIdleTimer(s) EXCEPT !.liveIdleTimer = TRUE]

\* resetTurnState leaving the lifecycle map as it is
resetTurnState_KeepLifecycle(s) ==
  [clearLiveIdleTimer(s) EXCEPT
     !.emittedTurnChars = 0,
     !.emittedMetaEvents = 0,
     !.truncationNoticeEmitted = FALSE,
     !.lastStatusHash = Undefined,
     !.lastToolHash = Undefined,
     !.lastUsageTuple = Undefined,
     !.lastVisibleOutputTail = Undefined,
     !.pendingHiddenBoundary = FALSE,
     !.liveBufferText = <<>>,
     !.pendingToolDeliveries = <<>>]

resetTurnState(s) ==
  [clearLiveIdleTimer(s) EXCEPT
     !.emittedTurnChars = 0,
     !.emittedMetaEvents = 0,
     !.truncationNoticeEmitted = FALSE,
     !.lastStatusHash = Undefined,
     !.lastToolHash = Undefined,
     !.lastUsageTuple = Undefined,
     !.lastVisibleOutputTail = Undefined,
     !.pendingHiddenBoundary = FALSE,
     !.liveBufferText = <<>>,
     !.pendingToolDeliveries = <<>>,
     !.toolLifecycleById = EmptyLifecycle]

\* flushBufferedToolDeliveries taking a payload off the queue only once the
\* callback has returned for it
flushBufferedToolDeliveries_Requeue(s, force) ==
  IF ~(settings.deliveryMode = "final_only" /\ force) THEN s
  ELSE LET r == deliverEach([s EXCEPT !.pendingToolDeliveries = <<>>],
                            s.pendingToolDeliveries)
           n == DeliverAttempts(r) - DeliverAttempts(s)
       IN IF r.threw
          THEN [r EXCEPT !.pendingToolDeliveries =
                           SubSeq(s.pendingToolDeliveries, n, Len(s.pendingToolDeliveries))]
          ELSE r

\* flushBufferedToolDeliveries ignoring the force argument
flushBufferedToolDeliveries_Unforced(s, force) ==
  IF settings.deliveryMode # "final_only" THEN s
  ELSE [s EXCEPT
          !.pendingToolDeliveries = <<>>,
          !.out = @ \o [i \in 1..Len(s.pendingToolDeliveries) |->
                          [s.pendingToolDeliveries[i] EXCEPT !.op = "deliverBuffered"]]]

flushBufferedToolDeliveries(s, force) ==
  IF ~(settings.deliveryMode = "final_only" /\ force) THEN s
  ELSE deliverEach([s EXCEPT !.pendingToolDeliveries = <<>>], s.pendingToolDeliveries)

\* flush draining the chunker before it delivers the buffered payloads
flush_TextFirst(s, force) ==
  LET s1 == IF settings.deliveryMode = "live"
            THEN flushLiveBuffer(clearLiveIdleTimer(s), TRUE, FALSE)
            ELSE s
      s2 == drainChunker(s1, force)
      s3 == flushBufferedToolDeliveries(s2, force)
  IN IF s3.threw THEN s3
     ELSE [s3 EXCEPT !.out = Append(@, Call("pipelineFlush", "block", <<>>, NoMeta,
                                            "text", force)),
                     !.awaits = Append(@, Suspended(s3, "pipelineFlush")),
                     !.threw = (s3.failAt = PipelineFlushThrows)]

\* flush leaving the live buffer alone
flush_SkipLiveBuffer(s, force) ==
  LET s2 == flushBufferedToolDeliveries(s, force)
      s3 == drainChunker(s2, force)
  IN [s3 EXCEPT !.out = Append(@, Call("pipelineFlush", "block", <<>>, NoMeta, "text", force)),
                !.awaits = Append(@, Suspended(s3, "pipelineFlush"))]

flush(s, force) ==
  LET s1 == IF settings.deliveryMode = "live"
            THEN flushLiveBuffer(clearLiveIdleTimer(s), TRUE, FALSE)
            ELSE s
      s2 == flushBufferedToolDeliveries(s1, force)
      s3 == drainChunker(s2, force)
  IN IF s2.threw THEN s2
     ELSE [s3 EXCEPT !.out = Append(@, Call("pipelineFlush", "block", <<>>, NoMeta,
                                            "text", force)),
                     !.awaits = Append(@, Suspended(s3, "pipelineFlush")),
                     !.threw = (s3.failAt = PipelineFlushThrows)]

\* consumeMetaQuota comparing with > where the code compares with >=
consumeMetaQuota_OffByOne(s, force) ==
  IF force THEN [ok |-> TRUE, s |-> s]
  ELSE IF s.emittedMetaEvents > settings.maxMetaEventsPerTurn THEN [ok |-> FALSE, s |-> s]
  ELSE [ok |-> TRUE, s |-> [s EXCEPT !.emittedMetaEvents = @ + 1]]

consumeMetaQuota(s, force) ==
  IF force THEN [ok |-> TRUE, s |-> s]
  ELSE IF s.emittedMetaEvents >= settings.maxMetaEventsPerTurn THEN [ok |-> FALSE, s |-> s]
  ELSE [ok |-> TRUE, s |-> [s EXCEPT !.emittedMetaEvents = @ + 1]]

\* shouldDedupe of emitSystemStatus
shouldDedupeStatus_IgnoreSetting(dedupe) == dedupe

shouldDedupeStatus(dedupe) == settings.repeatSuppression /\ dedupe

\* the repeat test of emitSystemStatus
isRepeatedStatus_Never(s, hash) == FALSE

isRepeatedStatus(s, hash) == s.lastStatusHash = hash

\* emitSystemStatus without the test of shouldSendToolSummaries
emitSystemStatus_SummariesOn(s, text, meta, force, dedupe, src) ==
  IF FALSE THEN s
  ELSE LET bounded == truncateText(Trim(text), settings.maxStatusChars)
           formatted == prefixSystemMessage(bounded)
           hash == hashText(formatted)
           shouldDedupe == shouldDedupeStatus(dedupe)
           q == consumeMetaQuota(s, force)
           payload(op) == Call(op, "tool", formatted, meta, src, force)
       IN IF bounded = <<>> THEN s
          ELSE IF shouldDedupe /\ isRepeatedStatus(s, hash) THEN s
          ELSE IF ~q.ok THEN s
          ELSE IF settings.deliveryMode = "final_only"
               THEN [q.s EXCEPT !.pendingToolDeliveries = Append(@, payload("buffer")),
                                !.out = Append(@, payload("buffer")),
                                !.lastStatusHash = hash]
               ELSE LET f == flush(q.s, TRUE)
                        sent == deliverCall(f, payload("deliver"))
                    IN IF f.threw THEN f
                       ELSE IF sent.threw THEN sent
                       ELSE [sent EXCEPT !.lastStatusHash = hash]

emitSystemStatus(s, text, meta, force, dedupe, src) ==
  IF ~settings.shouldSendToolSummaries THEN s
  ELSE LET bounded == truncateText(Trim(text), settings.maxStatusChars)
           formatted == prefixSystemMessage(bounded)
           hash == hashText(formatted)
           shouldDedupe == shouldDedupeStatus(dedupe)
           q == consumeMetaQuota(s, force)
           payload(op) == Call(op, "tool", formatted, meta, src, force)
       IN IF bounded = <<>> THEN s
          ELSE IF shouldDedupe /\ isRepeatedStatus(s, hash) THEN s
          ELSE IF ~q.ok THEN s
          ELSE IF settings.deliveryMode = "final_only"
               THEN [q.s EXCEPT !.pendingToolDeliveries = Append(@, payload("buffer")),
                                !.out = Append(@, payload("buffer")),
                                !.lastStatusHash = hash]
               ELSE LET f == flush(q.s, TRUE)
                        sent == deliverCall(f, payload("deliver"))
                    IN IF f.threw THEN f
                       ELSE IF sent.threw THEN sent
                       ELSE [sent EXCEPT !.lastStatusHash = hash]

NewLifecycle == [started |-> FALSE, terminal |-> FALSE, lastRenderedHash |-> Undefined]

eventToolCallId(event) ==
  IF event.toolCallId = None \/ TrimStr(event.toolCallId) = "" THEN None
  ELSE TrimStr(event.toolCallId)

eventIsTerminal(event) ==
  LET status == normalizeToolStatus(event.status)
  IN IF status # None THEN status \in TERMINAL_TOOL_STATUSES ELSE FALSE

eventIsStart(event) ==
  normalizeToolStatus(event.status) = "in_progress" \/ event.tag = "tool_call"

\* the three per-id suppression tests of emitToolSummary
isDuplicateTerminal_Never(isTerminal, state) == FALSE

isDuplicateTerminal(isTerminal, state) == isTerminal /\ state.terminal

isDuplicateStart_Never(isStart, state) == FALSE

isDuplicateStart(isStart, state) == isStart /\ state.started

isSameRendering_Never(state, hash) == FALSE

isSameRendering(state, hash) == state.lastRenderedHash = hash

\* the repeat-suppression block of emitToolSummary: whether the event is suppressed,
\* and the lifecycle map after it
toolDedup(s, event, hash) ==
  LET toolCallId == eventToolCallId(event)
      isTerminal == eventIsTerminal(event)
      isStart == eventIsStart(event)
      state == IF toolCallId \in DOMAIN s.toolLifecycleById
               THEN s.toolLifecycleById[toolCallId] ELSE NewLifecycle
      next == [started |-> state.started \/ isStart,
               terminal |-> state.terminal \/ isTerminal,
               lastRenderedHash |-> hash]
  IN IF ~settings.repeatSuppression THEN [suppress |-> FALSE, s |-> s]
     ELSE IF toolCallId # None
          THEN IF isDuplicateTerminal(isTerminal, state) THEN [suppress |-> TRUE, s |-> s]
               ELSE IF isDuplicateStart(isStart, state) THEN [suppress |-> TRUE, s |-> s]
               ELSE IF isSameRendering(state, hash) THEN [suppress |-> TRUE, s |-> s]
               ELSE [suppress |-> FALSE,
                     s |-> [s EXCEPT !.toolLifecycleById =
                              [id \in DOMAIN @ \cup {toolCallId} |->
                                 IF id = toolCallId THEN next ELSE @[id]]]]
          ELSE IF s.lastToolHash = hash THEN [suppress |-> TRUE, s |-> s]
          ELSE [suppress |-> FALSE, s |-> s]

\* allowEdit granted to every event that has an id
toolAllowEdit_AnyId(toolCallId, tag) == toolCallId # None

\* Boolean(toolCallId && event.tag === "tool_call_update")
toolAllowEdit(toolCallId, tag) == toolCallId # None /\ tag = "tool_call_update"

\* emitToolSummary recording the lifecycle of the id only when the quota admits the event
emitToolSummary_QuotaFirst(s, event, force) ==
  IF ~settings.shouldSendToolSummaries THEN s
  ELSE IF ~isAcpTagVisible(event.tag) THEN s
  ELSE LET toolSummary == truncateText(renderToolSummaryText(event),
                                       settings.maxToolSummaryChars)
           hash == hashText(toolSummary)
           toolCallId == eventToolCallId(event)
           status == normalizeToolStatus(event.status)
           d == toolDedup(s, event, hash)
           q == consumeMetaQuota(d.s, force)
           deliveryMeta ==
             [tag |-> event.tag, toolCallId |-> toolCallId, toolStatus |-> status,
              allowEdit |-> IF toolAllowEdit(toolCallId, event.tag)
                            THEN "true" ELSE "false"]
           payload(op) == Call(op, "tool", toolSummary, deliveryMeta, "tool", force)
       IN IF d.suppress THEN s
          ELSE IF ~q.ok THEN s
          ELSE IF settings.deliveryMode = "final_only"
               THEN [q.s EXCEPT !.pendingToolDeliveries = Append(@, payload("buffer")),
                                !.out = Append(@, payload("buffer")),
                                !.lastToolHash = hash]
               ELSE LET f == flush(q.s, TRUE)
                        sent == deliverCall(f, payload("deliver"))
                    IN IF f.threw THEN f
                       ELSE IF sent.threw THEN sent
                       ELSE [sent EXCEPT !.lastToolHash = hash]

emitToolSummary(s, event, force) ==
  IF ~settings.shouldSendToolSummaries THEN s
  ELSE IF ~isAcpTagVisible(event.tag) THEN s
  ELSE LET toolSummary == truncateText(renderToolSummaryText(event),
                                       settings.maxToolSummaryChars)
           hash == hashText(toolSummary)
           toolCallId == eventToolCallId(event)
           status == normalizeToolStatus(event.status)
           d == toolDedup(s, event, hash)
           q == consumeMetaQuota(d.s, force)
           deliveryMeta ==
             [tag |-> event.tag, toolCallId |-> toolCallId, toolStatus |-> status,
              allowEdit |-> IF toolAllowEdit(toolCallId, event.tag)
                            THEN "true" ELSE "false"]
           payload(op) == Call(op, "tool", toolSummary, deliveryMeta, "tool", force)
       IN IF d.suppress THEN s
          ELSE IF ~q.ok THEN d.s
          ELSE IF settings.deliveryMode = "final_only"
               THEN [q.s EXCEPT !.pendingToolDeliveries = Append(@, payload("buffer")),
                                !.out = Append(@, payload("buffer")),
                                !.lastToolHash = hash]
               ELSE LET f == flush(q.s, TRUE)
                        sent == deliverCall(f, payload("deliver"))
                    IN IF f.threw THEN f
                       ELSE IF sent.threw THEN sent
                       ELSE [sent EXCEPT !.lastToolHash = hash]

OutputTruncated ==
  <<"o", "u", "t", "p", "u", "t", " ", "t", "r", "u", "n", "c", "a", "t", "e", "d">>

truncationNoticeLatched_Never(s) == FALSE

truncationNoticeLatched(s) == s.truncationNoticeEmitted

\* the options emitTruncationNotice passes to emitSystemStatus
truncationNoticeOpts_Deduped == [force |-> TRUE, dedupe |-> TRUE]

truncationNoticeOpts == [force |-> TRUE, dedupe |-> FALSE]

emitTruncationNotice(s) ==
  IF truncationNoticeLatched(s) THEN s
  ELSE emitSystemStatus([s EXCEPT !.truncationNoticeEmitted = TRUE], OutputTruncated,
                        [NoMeta EXCEPT !.tag = "session_info_update"],
                        truncationNoticeOpts.force, truncationNoticeOpts.dedupe, "notice")

\* the stream test of onEvent: an absent stream counts as "output"
isProjectedStream_Always(stream) == TRUE

isProjectedStream(stream) == ~(stream # None /\ stream # "" /\ stream # "output")

withSeparator_Appended(separator, text) == text \o separator

withSeparator(separator, text) == separator \o text

clearPendingBoundary_Keep(s) == s

clearPendingBoundary(s) == [s EXCEPT !.pendingHiddenBoundary = FALSE]

acceptWithinBudget_NoSlice(text, remaining) == text

\* the cut taking one character more than the budget has left
acceptWithinBudget_OneMore(text, remaining) ==
  IF remaining < Len(text) THEN Slice0(text, remaining + 1) ELSE text

acceptWithinBudget(text, remaining) ==
  IF remaining < Len(text) THEN Slice0(text, remaining) ELSE text

hiddenBoundaryAfter_TerminalOnly(event) == eventIsTerminal(event)

hiddenBoundaryAfter(event) == event.tag = "tool_call" \/ eventIsTerminal(event)

onTextDelta(s, event) ==
  IF ~isProjectedStream(event.stream) THEN s
  ELSE IF ~isAcpTagVisible(event.tag) THEN s
  ELSE IF event.text = <<>> THEN s
  ELSE
    LET separator == resolveHiddenBoundarySeparatorText(settings.hiddenBoundarySeparator)
        insert == s.pendingHiddenBoundary
                  /\ shouldInsertSeparator(separator, s.lastVisibleOutputTail, event.text)
        text == IF insert THEN withSeparator(separator, event.text) ELSE event.text
        s1 == [clearPendingBoundary(s) EXCEPT !.inserted = insert]
        remaining == settings.maxTurnChars - s1.emittedTurnChars
        acceptedText == acceptWithinBudget(text, remaining)
        s2 == IF Len(acceptedText) > 0
              THEN LET a == [s1 EXCEPT !.emittedTurnChars = @ + Len(acceptedText),
                                       !.lastVisibleOutputTail = SliceLast(acceptedText),
                                       !.accepted = @ \o acceptedText]
                   IN IF settings.deliveryMode = "live"
                      THEN LET b == [a EXCEPT !.liveBufferText = @ \o acceptedText]
                           IN IF shouldFlushLiveBufferOnBoundary(b.liveBufferText)
                              THEN flushLiveBuffer(clearLiveIdleTimer(b), TRUE, FALSE)
                              ELSE scheduleLiveIdleFlush(b)
                      ELSE drainChunker(chunkerAppend(a, acceptedText), FALSE)
              ELSE s1
    IN IF s1.emittedTurnChars >= settings.maxTurnChars
       THEN emitTruncationNotice([s1 EXCEPT !.truncated = TRUE])
       ELSE IF Len(acceptedText) < Len(text)
            THEN emitTruncationNotice([s2 EXCEPT !.truncated = TRUE])
            ELSE s2

\* the comparison key of a usage_update event
usageTupleOf_TextOnly(event) == hashText(event.text)

usageTupleOf(event) ==
  IF event.used # NoNum /\ event.size # NoNum
  THEN NumStr(event.used) \o <<"/">> \o NumStr(event.size)
  ELSE hashText(event.text)

onStatus(s, event) ==
  IF ~isAcpTagVisible(event.tag) THEN s
  ELSE
    LET usageTuple == usageTupleOf(event)
        meta == IF event.tag # None THEN [NoMeta EXCEPT !.tag = event.tag] ELSE NoMeta
    IN IF event.tag = "usage_update" /\ settings.repeatSuppression
       THEN IF usageTuple = s.lastUsageTuple THEN s
            ELSE emitSystemStatus([s EXCEPT !.lastUsageTuple = usageTuple],
                                  event.text, meta, FALSE, TRUE, "status")
       ELSE emitSystemStatus(s, event.text, meta, FALSE, TRUE, "status")

onToolCall(s, event) ==
  IF ~isAcpTagVisible(event.tag)
  THEN IF event.tag # None /\ event.tag \in HIDDEN_BOUNDARY_TAGS
       THEN [s EXCEPT !.pendingHiddenBoundary = hiddenBoundaryAfter(event)]
       ELSE s
  ELSE emitToolSummary(s, event, FALSE)

\* done/error resetting the turn also when the flush threw
onTerminal_ResetAlways(s) == resetTurnState(flush(s, TRUE))

\* done/error resetting the turn before the flush
onTerminal_ResetFirst(s) == flush(resetTurnState(s), TRUE)

onTerminal(s) ==
  LET f == flush(s, TRUE)
  IN IF f.threw THEN f ELSE resetTurnState(f)

\* onEvent handling done only
onEvent_DoneOnly(s, event) ==
  IF event.type = "text_delta" THEN onTextDelta(s, event)
  ELSE IF event.type = "status" THEN onStatus(s, event)
  ELSE IF event.type = "tool_call" THEN onToolCall(s, event)
  ELSE IF event.type = "done" THEN onTerminal(s)
  ELSE s

onEvent(s, event) ==
  IF event.type = "text_delta" THEN onTextDelta(s, event)
  ELSE IF event.type = "status" THEN onStatus(s, event)
  ELSE IF event.type = "tool_call" THEN onToolCall(s, event)
  ELSE IF event.type = "done" \/ event.type = "error" THEN onTerminal(s)
  ELSE s

\* the callback without its re-arming
liveIdleTimerCallback_NoRearm(s) ==
  flushLiveBuffer([s EXCEPT !.liveIdleTimer = FALSE], TRUE, TRUE)

\* the setTimeout callback armed by scheduleLiveIdleFlush
liveIdleTimerCallback(s) ==
  LET f == flushLiveBuffer([s EXCEPT !.liveIdleTimer = FALSE], TRUE, TRUE)
  IN IF f.liveBufferText # <<>> THEN scheduleLiveIdleFlush(f) ELSE f

-----------------------------------------------------------------------------
(* Settings and events fed to the projector *)

ACP_LIVE_IDLE_FLUSH_FLOOR_MS == 750
DEFAULT_ACP_STREAM_COALESCE_IDLE_MS == 350

NoVisibility == [t \in {} |-> TRUE]
ToolsVisible ==
  [t \in {"tool_call", "tool_call_update", "usage_update", "session_info_update"} |-> TRUE]

Separators == {"none", "space", "newline", "paragraph"}

ResolvedSettings(mode, sep, rs, vis, send) ==
  [deliveryMode |-> mode,
   hiddenBoundarySeparator |-> sep,
   repeatSuppression |-> rs,
   maxTurnChars |-> MaxTurnCharsCfg,
   maxToolSummaryChars |-> DEFAULT_ACP_MAX_TOOL_SUMMARY_CHARS,
   maxStatusChars |-> DEFAULT_ACP_MAX_STATUS_CHARS,
   maxMetaEventsPerTurn |-> MaxMetaCfg,
   tagVisibility |-> vis,
   shouldSendToolSummaries |-> send,
   deliverMayThrow |-> FALSE,
   liveIdleFlushMs |-> IF DEFAULT_ACP_STREAM_COALESCE_IDLE_MS > ACP_LIVE_IDLE_FLUSH_FLOOR_MS
                       THEN DEFAULT_ACP_STREAM_COALESCE_IDLE_MS
                       ELSE ACP_LIVE_IDLE_FLUSH_FLOOR_MS]

Modes == {"live", "final_only"}

\* the configurations tried: every separator with the default visibility (tools
\* hidden), tools visible with repeat suppression in both modes and without it in
\* live mode, summaries off
SettingsSet ==
  {ResolvedSettings(mode, sep, TRUE, NoVisibility, TRUE) : mode \in Modes, sep \in Separators}
  \cup {ResolvedSettings(mode, "paragraph", TRUE, ToolsVisible, TRUE) : mode \in Modes}
  \cup {ResolvedSettings("live", "paragraph", FALSE, ToolsVisible, TRUE)}
  \cup {ResolvedSettings(mode, "paragraph", TRUE, vis, FALSE) :
          mode \in Modes, vis \in {NoVisibility, ToolsVisible}}

NoEvent ==
  [type |-> "init", stream |-> None, tag |-> None, text |-> <<>>, used |-> NoNum,
   size |-> NoNum, toolCallId |-> None, status |-> None, title |-> None, force |-> FALSE]

\* a text of n characters c
Rep(c, n) == [i \in 1..n |-> c]

\* the configuration keeps the default character budget: the feed then holds
\* fragments long enough to reach the thresholds of the live buffer
LongTurn == settings.maxTurnChars = DEFAULT_ACP_MAX_TURN_CHARS

LongFragments ==
  {Rep("a", ACP_LIVE_HARD_FLUSH_CHARS - 1), Rep("a", ACP_LIVE_SOFT_FLUSH_CHARS - 1),
   Rep("a", ACP_LIVE_IDLE_MIN_CHARS - 1), <<"a">>, <<" ">>, <<"\n">>, <<".">>, <<")">>}

\* The feed depends on the configuration: where tools and status lines are hidden
\* (default visibility) it exercises text and separators with a few hidden meta
\* events; where they are visible it exercises tool and status events with a few
\* text fragments, the whole tool feed in live mode and a part of it in final_only
\* mode, where every payload stays queued.
ToolsHidden == settings.tagVisibility = NoVisibility

Fragments ==
  IF LongTurn THEN LongFragments
  ELSE IF ToolsHidden THEN {<<>>, <<"a">>, <<" ">>, <<"\n">>, <<"a", "b", "c">>}
  ELSE {<<"a">>, <<"a", "b", "c", "d">>}

TextEvents ==
  {[NoEvent EXCEPT !.type = "text_delta", !.tag = "agent_message_chunk",
                   !.stream = "output", !.text = t] : t \in Fragments}
  \cup (IF ToolsHidden
        THEN {[NoEvent EXCEPT !.type = "text_delta", !.tag = "agent_message_chunk",
                              !.stream = "thought", !.text = <<"a">>],
              [NoEvent EXCEPT !.type = "text_delta", !.tag = "agent_thought_chunk",
                              !.text = <<"a">>]}
        ELSE {})

\* the delivery callback of the configuration may throw: the feed is then the few
\* events whose payloads the failure cases need (a status line, a usage line, a
\* tool with an id and one without)
MayThrow == settings.deliverMayThrow

StatusEvents ==
  IF LongTurn
  THEN {[NoEvent EXCEPT !.type = "status", !.tag = "session_info_update", !.text = <<"s">>]}
  ELSE IF MayThrow
  THEN {[NoEvent EXCEPT !.type = "status", !.tag = "session_info_update", !.text = <<"s">>],
        [NoEvent EXCEPT !.type = "status", !.tag = "usage_update", !.text = <<"u">>,
                        !.used = 1, !.size = 2]}
  ELSE
  {[NoEvent EXCEPT !.type = "status", !.tag = "usage_update", !.text = <<"u">>,
                   !.used = 1, !.size = 2]}
  \cup (IF ToolsHidden THEN {}
        ELSE {[NoEvent EXCEPT !.type = "status", !.tag = "usage_update", !.text = <<"v">>,
                              !.used = 1, !.size = 2],
              [NoEvent EXCEPT !.type = "status", !.tag = "usage_update", !.text = <<"v">>,
                              !.used = 1]}
             \cup {[NoEvent EXCEPT !.type = "status", !.tag = "session_info_update",
                                   !.text = t] :
                     t \in {<<>>, <<"s">>, <<" ", "s">>, OutputTruncated}})

ToolEvent(tag, id, st) ==
  [NoEvent EXCEPT !.type = "tool_call", !.tag = tag, !.toolCallId = id, !.status = st]

ToolEvents ==
  IF LongTurn
  THEN {ToolEvent("tool_call", "T1", "in_progress"),
        ToolEvent("tool_call_update", "T1", "completed")}
  ELSE IF MayThrow
  THEN {ToolEvent("tool_call", "T1", "in_progress"),
        ToolEvent("tool_call_update", "T1", "completed"),
        ToolEvent("tool_call", None, None)}
  ELSE IF ToolsHidden
  THEN {ToolEvent("tool_call", None, None),
        ToolEvent("tool_call_update", None, None),
        ToolEvent("tool_call_update", "T1", "completed"),
        ToolEvent("plan", "T1", "completed")}
  ELSE IF settings.deliveryMode = "final_only"
  THEN {ToolEvent("tool_call", "T1", "in_progress"),
        ToolEvent("tool_call_update", "T1", None),
        ToolEvent("tool_call_update", "T1", "completed"),
        ToolEvent("tool_call", None, None)}
  ELSE {ToolEvent(tag, "T1", st) :
          tag \in {"tool_call", "tool_call_update"},
          st \in {None, "in_progress", "completed"}}
       \cup {ToolEvent("tool_call", None, None),
             ToolEvent("tool_call_update", None, None),
             ToolEvent("tool_call_update", "T1", " Completed "),
             ToolEvent("tool_call", "T2", "in_progress"),
             ToolEvent("tool_call_update", "T2", "completed")}

TerminalEvents == {[NoEvent EXCEPT !.type = "done"], [NoEvent EXCEPT !.type = "error"]}

-----------------------------------------------------------------------------
(* Resolution of the projection settings (acp-stream-settings.ts) *)

DEFAULT_ACP_MAX_META_EVENTS_PER_TURN == 64
DEFAULT_ACP_REPEAT_SUPPRESSION == TRUE
DEFAULT_ACP_DELIVERY_MODE == "final_only"
DEFAULT_ACP_HIDDEN_BOUNDARY_SEPARATOR == "paragraph"
DEFAULT_ACP_HIDDEN_BOUNDARY_SEPARATOR_LIVE == "space"

\* A configured value of unknown type where a number is expected: a finite number
\* (held in tenths, so that fractions can be rounded), NaN, an infinity, a value
\* of another type, or nothing.
Tenths(t) == [kind |-> "number", tenths |-> t]
NotANumber == [kind |-> "NaN", tenths |-> 0]
PlusInfinity == [kind |-> "Infinity", tenths |-> 0]
AString == [kind |-> "string", tenths |-> 0]
Absent == [kind |-> "undefined", tenths |-> 0]

TypeofNumber(value) == value.kind \in {"number", "NaN", "Infinity"}
IsFinite(value) == value.kind = "number"

\* Math.round of a number held in tenths: the nearest integer, halves upwards
MathRound(t) == (t + 5) \div 10

\* clampPositiveInteger with Math.floor in the place of Math.round
clampPositiveInteger_Floor(value, fallback, bounds) ==
  IF ~TypeofNumber(value) \/ ~IsFinite(value) THEN fallback
  ELSE LET rounded == value.tenths \div 10
       IN IF rounded < bounds.min THEN bounds.min
          ELSE IF rounded > bounds.max THEN bounds.max
          ELSE rounded

clampPositiveInteger(value, fallback, bounds) ==
  IF ~TypeofNumber(value) \/ ~IsFinite(value) THEN fallback
  ELSE LET rounded == MathRound(value.tenths)
       IN IF rounded < bounds.min THEN bounds.min
          ELSE IF rounded > bounds.max THEN bounds.max
          ELSE rounded

\* a configured boolean is held as "true" / "false"; anything else is not a boolean
clampBoolean(value, fallback) ==
  IF value = "true" THEN TRUE ELSE IF value = "false" THEN FALSE ELSE fallback

resolveAcpDeliveryMode(value) ==
  IF value = "live" \/ value = "final_only" THEN value ELSE DEFAULT_ACP_DELIVERY_MODE

resolveAcpHiddenBoundarySeparator(value, fallback) ==
  IF value = "none" \/ value = "space" \/ value = "newline" \/ value = "paragraph"
  THEN value ELSE fallback

\* cfg.acp?.stream with every field absent
NoStream ==
  [present |-> FALSE, deliveryMode |-> None, hiddenBoundarySeparator |-> None,
   repeatSuppression |-> None, maxTurnChars |-> Absent, maxToolSummaryChars |-> Absent,
   maxStatusChars |-> Absent, maxMetaEventsPerTurn |-> Absent,
   tagVisibility |-> NoVisibility]

\* stream?.field: nothing when the configuration has no stream section
StreamField(c, field) == IF c.present THEN c[field] ELSE NoStream[field]

resolveAcpProjectionSettings(c) ==
  LET deliveryMode == resolveAcpDeliveryMode(StreamField(c, "deliveryMode"))
      hiddenBoundaryFallback ==
        IF deliveryMode = "live" THEN DEFAULT_ACP_HIDDEN_BOUNDARY_SEPARATOR_LIVE
        ELSE DEFAULT_ACP_HIDDEN_BOUNDARY_SEPARATOR
  IN [deliveryMode |-> deliveryMode,
      hiddenBoundarySeparator |->
        resolveAcpHiddenBoundarySeparator(StreamField(c, "hiddenBoundarySeparator"),
                                          hiddenBoundaryFallback),
      repeatSuppression |->
        clampBoolean(StreamField(c, "repeatSuppression"), DEFAULT_ACP_REPEAT_SUPPRESSION),
      maxTurnChars |->
        clampPositiveInteger(StreamField(c, "maxTurnChars"), DEFAULT_ACP_MAX_TURN_CHARS,
                             [min |-> 1, max |-> 500000]),
      maxToolSummaryChars |->
        clampPositiveInteger(StreamField(c, "maxToolSummaryChars"),
                             DEFAULT_ACP_MAX_TOOL_SUMMARY_CHARS,
                             [min |-> 64, max |-> 8000]),
      maxStatusChars |->
        clampPositiveInteger(StreamField(c, "maxStatusChars"), DEFAULT_ACP_MAX_STATUS_CHARS,
                             [min |-> 64, max |-> 8000]),
      maxMetaEventsPerTurn |->
        clampPositiveInteger(StreamField(c, "maxMetaEventsPerTurn"),
                             DEFAULT_ACP_MAX_META_EVENTS_PER_TURN,
                             [min |-> 1, max |-> 2000]),
      tagVisibility |-> StreamField(c, "tagVisibility")]

\* the settings variable before resolveAcpProjectionSettings has run
UnresolvedSettings ==
  [deliveryMode |-> None, hiddenBoundarySeparator |-> None, repeatSuppression |-> FALSE,
   maxTurnChars |-> 0, maxToolSummaryChars |-> 0, maxStatusChars |-> 0,
   maxMetaEventsPerTurn |-> 0, tagVisibility |-> NoVisibility]

NoQuery == "<no query>"

-----------------------------------------------------------------------------
(* The direct-room tracker (createDirectRoomTracker) *)

DM_CACHE_TTL_MS == 30000

\* the clock advances by half the lifetime of the caches
DmClockStep == DM_CACHE_TTL_MS \div 2

RoomId == "!room:example.org"
SenderUserId == "@alice:example.org"
BotUserId == "@bot:example.org"

\* userId?.trim() on the ids fed to the tracker
TrimUserId(id) ==
  IF id = " @alice:example.org " THEN SenderUserId
  ELSE IF id = " " THEN ""
  ELSE id

\* what client.getRoomStateEvent(roomId, "m.room.member", user) answers for the
\* two users: a state with is_direct true, a state with is_direct false, or a
\* rejection (for any other state key: null)
MemberStates == {"direct", "notDirect", "rejects"}

\* the answers of the Matrix client: dms.isDm(roomId), dms.update(),
\* getUserId(), the member state of the two users and the number of joined
\* members (NoNum: getJoinedRoomMembers rejects)
ClientAnswers ==
  [isDm : BOOLEAN,
   dmsUpdate : {"resolves", "rejects"},
   getUserId : {BotUserId, "rejects"},
   senderState : MemberStates,
   selfState : MemberStates,
   members : {NoNum, 2, 3}]

QuietClient ==
  [isDm |-> FALSE, dmsUpdate |-> "resolves", getUserId |-> BotUserId,
   senderState |-> "null", selfState |-> "null", members |-> NoNum]

\* params of isDirectMessage: senderId and selfUserId are optional
DirectMessageChecks ==
  [roomId : {RoomId},
   senderId : {None, SenderUserId, " @alice:example.org "},
   selfUserId : {None, BotUserId}]

NoMemberCount == [count |-> NoNum, ts |-> NoNum]

\* createDirectRoomTracker(client, opts): the variables of the closure
NewTracker(includeMemberCountInLogs) ==
  [includeMemberCountInLogs |-> includeMemberCountInLogs,
   lastDmUpdateMs |-> 0,
   cachedSelfUserId |-> None,
   memberCountCache |-> NoMemberCount]

ClientCall(op, arg) == [op |-> op, arg |-> arg]

memberStateOf(client, userId) ==
  IF userId = SenderUserId THEN client.senderState
  ELSE IF userId = BotUserId THEN client.selfState
  ELSE "null"

ensureSelfUserId(c, client) ==
  IF c.t.cachedSelfUserId # None THEN [c |-> c, value |-> c.t.cachedSelfUserId]
  ELSE LET id == IF client.getUserId = "rejects" THEN None ELSE client.getUserId
       IN [c |-> [c EXCEPT !.t.cachedSelfUserId = id,
                           !.calls = Append(@, ClientCall("getUserId", None))],
           value |-> id]

refreshDmCache(c, client, nowMs) ==
  IF nowMs - c.t.lastDmUpdateMs < DM_CACHE_TTL_MS THEN c
  ELSE LET u == [c EXCEPT !.t.lastDmUpdateMs = nowMs,
                          !.calls = Append(@, ClientCall("dms.update", None))]
       IN IF client.dmsUpdate = "rejects"
          THEN [u EXCEPT !.calls = Append(@, ClientCall("log", "dm cache refresh failed"))]
          ELSE u

resolveMemberCount(c, client, roomId, nowMs) ==
  IF ~c.t.includeMemberCountInLogs THEN [c |-> c, value |-> NoNum]
  ELSE LET cached == c.t.memberCountCache
       IN IF cached.count # NoNum /\ nowMs - cached.ts < DM_CACHE_TTL_MS
          THEN [c |-> c, value |-> cached.count]
          ELSE LET asked == [c EXCEPT !.calls = Append(@, ClientCall("getJoinedRoomMembers",
                                                                     roomId))]
               IN IF client.members = NoNum
                  THEN [c |-> [asked EXCEPT !.calls = Append(@, ClientCall("log",
                                                        "dm member count failed"))],
                        value |-> NoNum]
                  ELSE [c |-> [asked EXCEPT !.t.memberCountCache =
                                              [count |-> client.members, ts |-> nowMs]],
                        value |-> client.members]

\* hasDirectFlag taking every state the client returns for a direct one
hasDirectFlag_AnyState(c, client, roomId, userId) ==
  LET target == IF userId = None THEN None ELSE TrimUserId(userId)
  IN IF target = None \/ target = "" THEN [c |-> c, value |-> FALSE]
     ELSE [c |-> [c EXCEPT !.calls = Append(@, ClientCall("getRoomStateEvent", target))],
           value |-> memberStateOf(client, target) \in {"direct", "notDirect"}]

hasDirectFlag(c, client, roomId, userId) ==
  LET target == IF userId = None THEN None ELSE TrimUserId(userId)
  IN IF target = None \/ target = "" THEN [c |-> c, value |-> FALSE]
     ELSE [c |-> [c EXCEPT !.calls = Append(@, ClientCall("getRoomStateEvent", target))],
           value |-> memberStateOf(client, target) = "direct"]

\* isDirectMessage(params) of the tracker t with the client answering as `client`
\* at time nowMs: the tracker afterwards, the calls made, the value the promise
\* resolves with
isDirectMessage(t, params, client, nowMs) ==
  LET c0 == refreshDmCache([t |-> t, calls |-> <<>>], client, nowMs)
      c1 == [c0 EXCEPT !.calls = Append(@, ClientCall("dms.isDm", params.roomId))]
      self == IF params.selfUserId # None
              THEN [c |-> c1, value |-> params.selfUserId]
              ELSE ensureSelfUserId(c1, client)
      bySender == hasDirectFlag(self.c, client, params.roomId, params.senderId)
      bySelf == hasDirectFlag(bySender.c, client, params.roomId,
                              IF self.value = None THEN "" ELSE self.value)
      directViaState == IF bySender.value THEN bySender ELSE bySelf
      logged(c, how) == [c EXCEPT !.calls = Append(@, ClientCall("log", how))]
  IN IF client.isDm
     THEN [t |-> c1.t, calls |-> logged(c1, "dm detected via m.direct").calls,
           result |-> TRUE]
     ELSE IF directViaState.value
          THEN [t |-> directViaState.c.t,
                calls |-> logged(directViaState.c, "dm detected via member state").calls,
                result |-> TRUE]
          ELSE IF ~t.includeMemberCountInLogs
               THEN [t |-> directViaState.c.t,
                     calls |-> logged(directViaState.c, "result=group").calls,
                     result |-> FALSE]
               ELSE LET memberCount == resolveMemberCount(directViaState.c, client,
                                                          params.roomId, nowMs)
                    IN [t |-> memberCount.c.t,
                        calls |-> logged(memberCount.c, "result=group members").calls,
                        result |-> FALSE]

\* before: cachedSelfUserId when the call was made
NoDmCheck ==
  [called |-> FALSE,
   params |-> [roomId |-> RoomId, senderId |-> None, selfUserId |-> None],
   before |-> None,
   calls |-> <<>>,
   result |-> FALSE]

InitTrackerUnused ==
  /\ tracker = NewTracker(FALSE)
  /\ dmClock = 0
  /\ matrixClient = QuietClient
  /\ dmCheck = NoDmCheck

-----------------------------------------------------------------------------
(* Gateway startup configuration (prepareGatewayStartupConfig) *)

\* what readConfigFileSnapshot finds: whether the file exists, whether it
\* validates, whether it has legacy entries, and who wrote it last
ConfigContent(exists, valid, legacy, origin) ==
  [exists |-> exists, valid |-> valid, legacy |-> legacy, origin |-> origin]

\* a missing file reads as a valid empty configuration without legacy entries
MissingConfig == ConfigContent(FALSE, TRUE, FALSE, "nobody")

ConfigFilesFound ==
  {MissingConfig}
  \cup {ConfigContent(TRUE, valid, legacy, "user") : valid \in BOOLEAN, legacy \in BOOLEAN}

NoOutcome == [kind |-> "pending", error |-> None, config |-> MissingConfig]
Returned(config) == [kind |-> "returned", error |-> None, config |-> config]
Threw(error) == [kind |-> "threw", error |-> error, config |-> MissingConfig]

TraceEntry(op, what, content) == [op |-> op, what |-> what, content |-> content]

\* assertSnapshotValid accepting every snapshot
assertSnapshotValid_Lenient(snapshot) == FALSE

\* assertSnapshotValid(snapshot) throws
assertSnapshotValid(snapshot) == snapshot.exists /\ ~snapshot.valid

InitGatewayIdle ==
  /\ gwPc = "idle"
  /\ gwSnapshot = MissingConfig
  /\ gwTrace = <<>>
  /\ gwOutcome = NoOutcome

InitGatewayUnused ==
  /\ configFile = MissingConfig
  /\ isNixMode = FALSE
  /\ InitGatewayIdle

InitHostUnused == InitTrackerUnused /\ InitGatewayUnused

\* the projector specifications start from resolved settings and do not follow the
\* configuration they came from
InitCfgUnused ==
  /\ cfg = NoStream
  /\ tagQuery = NoQuery
  /\ tagVisible = TRUE

-----------------------------------------------------------------------------
(* startMatrixClientWithGrace (matrix startup.ts) *)

MATRIX_CLIENT_STARTUP_GRACE_MS == 2000

NoError == "<no error>"

StartErrors == {"invalid token", "late disconnect"}

\* client.start() throws at once, returns a promise that rejects, one that is
\* fulfilled, or one that never settles (the start loop keeps running)
StartBehaviours ==
  {[kind |-> k, err |-> e] : k \in {"throws", "rejects"}, e \in StartErrors}
  \cup {[kind |-> k, err |-> NoError] : k \in {"fulfils", "never"}}

\* the clock advances by half the default grace period
ClockStep == MATRIX_CLIENT_STARTUP_GRACE_MS \div 2

\* params.graceMs: absent, or 0, 1000, 3000 ms
GraceInputs == {NoNum, 0, ClockStep, 3 * ClockStep}

\* params.graceMs ?? MATRIX_CLIENT_STARTUP_GRACE_MS
graceMsOf(param) == IF param = NoNum THEN MATRIX_CLIENT_STARTUP_GRACE_MS ELSE param

PendingOutcome == [state |-> "pending", err |-> NoError, at |-> NoNum]

\* params.onError?.(err) left out
callOnError_Never(calls, err) == calls

\* params.onError?.(err)
callOnError(calls, err) == IF hasOnError THEN Append(calls, err) ELSE calls

\* the function returning normally whatever the start promise did
afterGrace_IgnoreFailure(failed, error, t) == [state |-> "resolved", err |-> NoError, at |-> t]

\* if (startFailed) throw startError; else the async function returns
afterGrace(failed, error, t) ==
  IF failed THEN [state |-> "rejected", err |-> error, at |-> t]
  ELSE [state |-> "resolved", err |-> NoError, at |-> t]

InitMatrixIdle ==
  /\ gracePc = "idle"
  /\ startPromise = "none"
  /\ startFailed = FALSE
  /\ startError = NoError
  /\ now = 0
  /\ graceDeadline = NoNum
  /\ outcome = PendingOutcome
  /\ onErrorCalls = <<>>
  /\ calledAt = NoNum
  /\ startRejectedAt = NoNum
  /\ rejectedAfterSettle = FALSE

\* the specifications of the projector and of its settings do not start a client
InitMatrixUnused ==
  /\ startBehaviour = [kind |-> "never", err |-> NoError]
  /\ graceMsParam = NoNum
  /\ hasOnError = FALSE
  /\ InitMatrixIdle

-----------------------------------------------------------------------------
(* The state machine *)

\* a visible tool_call event with an id, the tag tool_call and the status in_progress
IsToolStart(e) ==
  /\ e.type = "tool_call" /\ isAcpTagVisible(e.tag)
  /\ e.tag = "tool_call"
  /\ eventToolCallId(e) # None
  /\ normalizeToolStatus(e.status) = "in_progress"

NoToolStart == [event |-> NoEvent, out |-> <<>>]

InitTurn ==
  /\ emittedTurnChars = 0
  /\ emittedMetaEvents = 0
  /\ truncationNoticeEmitted = FALSE
  /\ lastStatusHash = Undefined
  /\ lastToolHash = Undefined
  /\ lastUsageTuple = Undefined
  /\ lastVisibleOutputTail = Undefined
  /\ pendingHiddenBoundary = FALSE
  /\ liveBufferText = <<>>
  /\ liveIdleTimer = FALSE
  /\ pendingToolDeliveries = <<>>
  /\ toolLifecycleById = EmptyLifecycle
  /\ chunkerBuffer = <<>>

InitHistory ==
  /\ out = <<>>
  /\ lastEvent = NoEvent
  /\ accepted = <<>>
  /\ sepInserted = FALSE
  /\ seenBefore = FALSE
  /\ sameAsPrev = FALSE
  /\ prevProduced = 0
  /\ nEvents = 0
  /\ turnAcceptedChars = 0
  /\ turnAcceptedText = <<>>
  /\ turnEnqueuedText = <<>>
  /\ turnTruncated = FALSE
  /\ turnNotices = 0
  /\ turnNoticesProduced = 0
  /\ lastStatusProduced = Undefined
  /\ prevStatusProduced = Undefined
  /\ usageSeen = NoEvent
  /\ prevUsageSeen = NoEvent
  /\ turnNonForced = 0
  /\ threw = FALSE
  /\ toolStart = NoToolStart
  /\ terminalSeen = {}
  /\ startProduced = {}
  /\ startedBefore = FALSE
  /\ awaits = <<>>

Init ==
  /\ settings \in SettingsSet
  /\ InitTurn
  /\ InitHistory
  /\ pre = St
  /\ InitCfgUnused
  /\ InitMatrixUnused
  /\ InitHostUnused

\* tool/status payloads an operation produced: delivered at once or buffered
Produced(calls) == SelectSeq(calls, LAMBDA c : c.op \in {"deliver", "buffer"})

\* two visible tool events with the same id, the same status and the same rendering
SameToolEvent(e1, e2) ==
  /\ e1.type = "tool_call" /\ e2.type = "tool_call"
  /\ isAcpTagVisible(e1.tag) /\ isAcpTagVisible(e2.tag)
  /\ eventToolCallId(e1) = eventToolCallId(e2)
  /\ normalizeToolStatus(e1.status) = normalizeToolStatus(e2.status)
  /\ hashText(truncateText(renderToolSummaryText(e1), settings.maxToolSummaryChars))
       = hashText(truncateText(renderToolSummaryText(e2), settings.maxToolSummaryChars))

\* the last operation was a done/error that ran to its end (one cut short by an
\* exception of the callback has not reset the turn)
TurnClosed == lastEvent.type \in {"done", "error"} /\ ~threw

\* status payloads (truncation notices included) among the calls of an operation
StatusCalls(calls) == SelectSeq(Produced(calls), LAMBDA c : c.src \in {"status", "notice"})

\* the concatenation of the texts of the chunks enqueued by an operation
RECURSIVE EnqueuedText(_)
EnqueuedText(calls) ==
  IF calls = <<>> THEN <<>>
  ELSE (IF Head(calls).op = "enqueue" THEN Head(calls).text ELSE <<>>)
       \o EnqueuedText(Tail(calls))

\* One operation of the host on the projector: `event` names it, r is the turn state
\* it returns.  The turn's history restarts with the first operation after done/error.
Step(event, r) ==
  /\ emittedTurnChars' = r.emittedTurnChars
  /\ emittedMetaEvents' = r.emittedMetaEvents
  /\ truncationNoticeEmitted' = r.truncationNoticeEmitted
  /\ lastStatusHash' = r.lastStatusHash
  /\ lastToolHash' = r.lastToolHash
  /\ lastUsageTuple' = r.lastUsageTuple
  /\ lastVisibleOutputTail' = r.lastVisibleOutputTail
  /\ pendingHiddenBoundary' = r.pendingHiddenBoundary
  /\ liveBufferText' = r.liveBufferText
  /\ liveIdleTimer' = r.liveIdleTimer
  /\ pendingToolDeliveries' = r.pendingToolDeliveries
  /\ toolLifecycleById' = r.toolLifecycleById
  /\ chunkerBuffer' = r.chunkerBuffer
  /\ out' = r.out
  /\ lastEvent' = event
  /\ pre' = St
  /\ accepted' = r.accepted
  /\ sepInserted' = r.inserted
  /\ seenBefore' = (event.type = "tool_call" /\ ~TurnClosed
                     /\ eventToolCallId(event) \in terminalSeen)
  /\ sameAsPrev' = SameToolEvent(lastEvent, event)
  /\ prevProduced' = IF SameToolEvent(lastEvent, event) THEN Len(Produced(out)) ELSE 0
  /\ nEvents' = (IF TurnClosed THEN 0 ELSE nEvents)
                 + (IF event.type = "idle_timer" THEN 0 ELSE 1)
  /\ turnAcceptedChars' = (IF TurnClosed THEN 0 ELSE turnAcceptedChars) + Len(r.accepted)
  /\ turnAcceptedText' = (IF TurnClosed THEN <<>> ELSE turnAcceptedText) \o r.accepted
  /\ turnEnqueuedText' = (IF TurnClosed THEN <<>> ELSE turnEnqueuedText)
                         \o EnqueuedText(r.out)
  /\ turnTruncated' = ((~TurnClosed /\ turnTruncated) \/ r.truncated)
  /\ turnNotices' = (IF TurnClosed THEN 0 ELSE turnNotices)
                    + Len(SelectSeq(r.out, LAMBDA c :
                            c.op \in {"deliver", "deliverBuffered"} /\ c.src = "notice"))
  /\ turnNoticesProduced' = (IF TurnClosed THEN 0 ELSE turnNoticesProduced)
                            + Len(SelectSeq(Produced(r.out), LAMBDA c : c.src = "notice"))
  /\ lastStatusProduced' = IF StatusCalls(r.out) # <<>>
                           THEN StatusCalls(r.out)[Len(StatusCalls(r.out))].text
                           ELSE IF TurnClosed THEN Undefined ELSE lastStatusProduced
  /\ prevStatusProduced' = IF TurnClosed THEN Undefined ELSE lastStatusProduced
  /\ usageSeen' = IF event.type = "status" /\ event.tag = "usage_update"
                     /\ isAcpTagVisible(event.tag)
                  THEN event
                  ELSE IF TurnClosed THEN NoEvent ELSE usageSeen
  /\ prevUsageSeen' = IF TurnClosed THEN NoEvent ELSE usageSeen
  /\ threw' = r.threw
  /\ toolStart' = IF ~TurnClosed /\ nEvents = 1 /\ IsToolStart(lastEvent)
                  THEN [event |-> lastEvent, out |-> out]
                  ELSE NoToolStart
  /\ turnNonForced' = (IF TurnClosed THEN 0 ELSE turnNonForced)
                      + Len(SelectSeq(Produced(r.out), LAMBDA c : ~c.forced))
  /\ terminalSeen' = (IF TurnClosed THEN {} ELSE terminalSeen)
                     \cup (IF event.type = "tool_call" /\ isAcpTagVisible(event.tag)
                              /\ eventIsTerminal(event) /\ eventToolCallId(event) # None
                           THEN {eventToolCallId(event)} ELSE {})
  /\ startProduced' = (IF TurnClosed THEN {} ELSE startProduced)
                      \cup (IF event.type = "tool_call" /\ isAcpTagVisible(event.tag)
                               /\ eventIsStart(event) /\ eventToolCallId(event) # None
                               /\ Produced(r.out) # <<>>
                            THEN {eventToolCallId(event)} ELSE {})
  /\ startedBefore' = (event.type = "tool_call" /\ ~TurnClosed
                        /\ eventToolCallId(event) \in startProduced)
  /\ awaits' = r.awaits
  /\ UNCHANGED <<settings, cfgVars, matrixVars, hostVars>>

MoreEvents == TurnClosed \/ nEvents < MaxEvents

\* which call of the delivery callback throws during an operation (0: none)
FailChoices ==
  IF settings.deliverMayThrow THEN {PipelineFlushThrows} \cup (0..MaxFailAt) ELSE {0}

\* the turn state an operation starts from, with the behaviour of the callback
Start(k) == [St EXCEPT !.failAt = k]

OnTextDelta ==
  \E e \in TextEvents, k \in FailChoices :
    MoreEvents /\ \E r \in {onEvent(Start(k), e)} : Step(e, r)

OnStatus ==
  \E e \in StatusEvents, k \in FailChoices :
    MoreEvents /\ \E r \in {onEvent(Start(k), e)} : Step(e, r)

OnToolCall ==
  \E e \in ToolEvents, k \in FailChoices :
    MoreEvents /\ \E r \in {onEvent(Start(k), e)} : Step(e, r)

\* (a pipeline flush that throws leaves the turn open: such failures are fed only
\* while the turn may take more events)
OnDoneOrError ==
  \E e \in TerminalEvents, k \in FailChoices :
    /\ ~TurnClosed
    /\ k = PipelineFlushThrows => nEvents < MaxEvents
    /\ \E r \in {onEvent(Start(k), e)} : Step(e, r)

Flush ==
  \E force \in BOOLEAN, k \in FailChoices :
    /\ MoreEvents
    /\ \E r \in {flush(Start(k), force)} :
         Step([NoEvent EXCEPT !.type = "flush", !.force = force], r)

LiveIdleTimerFires ==
  /\ liveIdleTimer
  /\ \E r \in {liveIdleTimerCallback(St)} : Step([NoEvent EXCEPT !.type = "idle_timer"], r)

Next ==
  \/ OnTextDelta
  \/ OnStatus
  \/ OnToolCall
  \/ OnDoneOrError
  \/ Flush
  \/ LiveIdleTimerFires

Spec == Init /\ [][Next]_vars

\* the projector with repeat suppression switched off, tools and status lines
\* visible, in both delivery modes
SettingsNoSuppression ==
  {ResolvedSettings(mode, "paragraph", FALSE, ToolsVisible, TRUE) : mode \in Modes}

InitNoSuppression ==
  /\ settings \in SettingsNoSuppression
  /\ InitTurn
  /\ InitHistory
  /\ pre = St
  /\ InitCfgUnused
  /\ InitMatrixUnused
  /\ InitHostUnused

SpecNoSuppression == InitNoSuppression /\ [][Next]_vars

\* the projector with the default character budget, tools and status lines visible
SettingsLongTurn(mode) ==
  [ResolvedSettings(mode, "paragraph", TRUE, ToolsVisible, TRUE)
     EXCEPT !.maxTurnChars = DEFAULT_ACP_MAX_TURN_CHARS]

InitLive ==
  /\ settings = SettingsLongTurn("live")
  /\ InitTurn
  /\ InitHistory
  /\ pre = St
  /\ InitCfgUnused
  /\ InitMatrixUnused
  /\ InitHostUnused

SpecLive == InitLive /\ [][Next]_vars

\* the projector with a delivery callback that may throw, tools and status lines
\* visible, in both delivery modes
SettingsFailing ==
  {[ResolvedSettings(mode, "paragraph", TRUE, ToolsVisible, TRUE)
      EXCEPT !.deliverMayThrow = TRUE] : mode \in Modes}

InitFailing ==
  /\ settings \in SettingsFailing
  /\ InitTurn
  /\ InitHistory
  /\ pre = St
  /\ InitCfgUnused
  /\ InitMatrixUnused
  /\ InitHostUnused

SpecFailing == InitFailing /\ [][Next]_vars

-----------------------------------------------------------------------------
(* Resolving a configuration and asking for the visibility of tags *)

DeliveryModeInputs == {None, "live", "final_only", "stream"}

SeparatorInputs == {None, "none", "space", "newline", "paragraph", "tab"}

\* -0.5, 0.5, 1.4, 1.5, 63.5, 500, 8000.5 and 500000.5, and what is not a finite number
NumberInputs ==
  {Absent, NotANumber, PlusInfinity, AString}
  \cup {Tenths(t) : t \in {-5, 5, 14, 15, 635, 5000, 80005, 5000005}}

\* repeatSuppression with a tag-visibility map: nothing, the map of the settings
\* test with repeat suppression off, a map hiding the model text with a flag that
\* is not a boolean
FlagAndVisibilityInputs ==
  {[repeatSuppression |-> None, tagVisibility |-> NoVisibility],
   [repeatSuppression |-> "false",
    tagVisibility |-> [t \in {"usage_update", "tool_call"} |-> t = "usage_update"]],
   [repeatSuppression |-> "yes",
    tagVisibility |-> [t \in {"agent_message_chunk", "plan"} |-> t = "plan"]]}

\* the configurations resolved: every delivery mode with every separator, one
\* number for maxTurnChars and maxStatusChars and one for maxToolSummaryChars and
\* maxMetaEventsPerTurn; and a configuration without a stream section
StreamConfigs ==
  {NoStream}
  \cup {[present |-> TRUE, deliveryMode |-> mode, hiddenBoundarySeparator |-> sep,
         repeatSuppression |-> fv.repeatSuppression,
         maxTurnChars |-> v1, maxToolSummaryChars |-> v2,
         maxStatusChars |-> v1, maxMetaEventsPerTurn |-> v2,
         tagVisibility |-> fv.tagVisibility] :
          mode \in DeliveryModeInputs, sep \in SeparatorInputs,
          fv \in FlagAndVisibilityInputs, v1 \in NumberInputs, v2 \in NumberInputs}

\* the tags asked for: the known ones, no tag, and a tag the defaults do not list
TagInputs == DOMAIN ACP_TAG_VISIBILITY_DEFAULTS \cup {None, "other_update"}

InitSettings ==
  /\ cfg \in StreamConfigs
  /\ settings = UnresolvedSettings
  /\ tagQuery = NoQuery
  /\ tagVisible = TRUE
  /\ InitTurn
  /\ InitHistory
  /\ pre = St
  /\ InitMatrixUnused
  /\ InitHostUnused

\* const settings = resolveAcpProjectionSettings(params.cfg)
ResolveSettings ==
  /\ settings = UnresolvedSettings
  /\ settings' = resolveAcpProjectionSettings(cfg)
  /\ UNCHANGED <<progVars, histVars, cfgVars, matrixVars, hostVars>>

\* isAcpTagVisible(settings, tag)
QueryTag ==
  /\ settings # UnresolvedSettings
  /\ \E tag \in TagInputs :
       /\ tagQuery' = tag
       /\ tagVisible' = isAcpTagVisible(tag)
  /\ UNCHANGED <<settings, cfg, progVars, histVars, matrixVars, hostVars>>

NextSettings ==
  \/ ResolveSettings
  \/ QueryTag

SpecSettings == InitSettings /\ [][NextSettings]_vars

-----------------------------------------------------------------------------
(* Starting a Matrix client with a grace period *)

InitMatrix ==
  /\ startBehaviour \in StartBehaviours
  /\ graceMsParam \in GraceInputs
  /\ hasOnError \in BOOLEAN
  /\ InitMatrixIdle
  /\ settings = UnresolvedSettings
  /\ InitTurn
  /\ InitHistory
  /\ pre = St
  /\ InitCfgUnused
  /\ InitHostUnused

\* the call, up to the await of the grace timer: client.start() throws (onError,
\* then the error is rethrown) or returns the promise the catch handler is
\* attached to, and the timer is set
CallStartMatrixClientWithGrace ==
  /\ gracePc = "idle"
  /\ calledAt' = now
  /\ IF startBehaviour.kind = "throws"
     THEN /\ onErrorCalls' = callOnError(onErrorCalls, startBehaviour.err)
          /\ outcome' = [state |-> "rejected", err |-> startBehaviour.err, at |-> now]
          /\ gracePc' = "settled"
          /\ UNCHANGED <<startPromise, graceDeadline>>
     ELSE /\ startPromise' = "pending"
          /\ graceDeadline' = now + graceMsOf(graceMsParam)
          /\ gracePc' = "waiting"
          /\ UNCHANGED <<onErrorCalls, outcome>>
  /\ UNCHANGED <<startBehaviour, graceMsParam, hasOnError, startFailed, startError, now,
                 startRejectedAt, rejectedAfterSettle>>
  /\ UNCHANGED <<settings, progVars, histVars, cfgVars, hostVars>>

\* the start promise rejects: the catch handler runs
StartRejects ==
  /\ startPromise = "pending"
  /\ startBehaviour.kind = "rejects"
  /\ startPromise' = "rejected"
  /\ startFailed' = TRUE
  /\ startError' = startBehaviour.err
  /\ onErrorCalls' = callOnError(onErrorCalls, startBehaviour.err)
  /\ startRejectedAt' = now
  /\ rejectedAfterSettle' = (gracePc = "settled")
  /\ UNCHANGED <<startBehaviour, graceMsParam, hasOnError, gracePc, now, graceDeadline,
                 outcome, calledAt>>
  /\ UNCHANGED <<settings, progVars, histVars, cfgVars, hostVars>>

\* the start promise is fulfilled: no handler is attached for that
StartFulfils ==
  /\ startPromise = "pending"
  /\ startBehaviour.kind = "fulfils"
  /\ startPromise' = "fulfilled"
  /\ UNCHANGED <<startBehaviour, graceMsParam, hasOnError, gracePc, startFailed, startError,
                 now, graceDeadline, outcome, onErrorCalls, calledAt, startRejectedAt,
                 rejectedAfterSettle>>
  /\ UNCHANGED <<settings, progVars, histVars, cfgVars, hostVars>>

\* the grace timer fires and the function goes on after its await
GraceTimerFires ==
  /\ gracePc = "waiting"
  /\ now >= graceDeadline
  /\ outcome' = afterGrace(startFailed, startError, now)
  /\ gracePc' = "settled"
  /\ UNCHANGED <<startBehaviour, graceMsParam, hasOnError, startPromise, startFailed,
                 startError, now, graceDeadline, onErrorCalls, calledAt, startRejectedAt,
                 rejectedAfterSettle>>
  /\ UNCHANGED <<settings, progVars, histVars, cfgVars, hostVars>>

\* time passes; a timer that is due fires before more time passes
ClockAdvances ==
  /\ now < MaxClockSteps * ClockStep
  /\ ~(gracePc = "waiting" /\ now >= graceDeadline)
  /\ now' = now + ClockStep
  /\ UNCHANGED <<startBehaviour, graceMsParam, hasOnError, gracePc, startPromise,
                 startFailed, startError, graceDeadline, outcome, onErrorCalls, calledAt,
                 startRejectedAt, rejectedAfterSettle>>
  /\ UNCHANGED <<settings, progVars, histVars, cfgVars, hostVars>>

NextMatrix ==
  \/ CallStartMatrixClientWithGrace
  \/ StartRejects
  \/ StartFulfils
  \/ GraceTimerFires
  \/ ClockAdvances

SpecMatrix == InitMatrix /\ [][NextMatrix]_vars

-----------------------------------------------------------------------------
(* Calls of isDirectMessage on one tracker while time passes *)

\* Date.now() is far from 0 when a tracker is created
InitTracker ==
  /\ tracker \in {NewTracker(includeMemberCountInLogs) : includeMemberCountInLogs \in BOOLEAN}
  /\ dmClock = DM_CACHE_TTL_MS
  /\ matrixClient \in ClientAnswers
  /\ dmCheck = NoDmCheck
  /\ settings = UnresolvedSettings
  /\ InitTurn
  /\ InitHistory
  /\ pre = St
  /\ InitCfgUnused
  /\ InitMatrixUnused
  /\ InitGatewayUnused

CallIsDirectMessage ==
  \E params \in DirectMessageChecks :
    LET r == isDirectMessage(tracker, params, matrixClient, dmClock)
    IN /\ tracker' = r.t
       /\ dmCheck' = [called |-> TRUE, params |-> params,
                      before |-> tracker.cachedSelfUserId,
                      calls |-> r.calls, result |-> r.result]
       /\ UNCHANGED <<dmClock, matrixClient>>
       /\ UNCHANGED <<settings, progVars, histVars, cfgVars, matrixVars, gatewayVars>>

\* the homeserver becomes unreachable for getUserId, or reachable again
GetUserIdChanges ==
  /\ matrixClient' = [matrixClient EXCEPT
                        !.getUserId = IF @ = "rejects" THEN BotUserId ELSE "rejects"]
  /\ dmCheck' = NoDmCheck
  /\ UNCHANGED <<tracker, dmClock>>
  /\ UNCHANGED <<settings, progVars, histVars, cfgVars, matrixVars, gatewayVars>>

DmClockAdvances ==
  /\ dmClock < DM_CACHE_TTL_MS + MaxDmClockSteps * DmClockStep
  /\ dmClock' = dmClock + DmClockStep
  /\ UNCHANGED <<tracker, matrixClient, dmCheck>>
  /\ UNCHANGED <<settings, progVars, histVars, cfgVars, matrixVars, gatewayVars>>

NextTracker ==
  \/ CallIsDirectMessage
  \/ GetUserIdChanges
  \/ DmClockAdvances

SpecTracker == InitTracker /\ [][NextTracker]_vars

-----------------------------------------------------------------------------
(* Runs of prepareGatewayStartupConfig on one configuration file *)

InitGateway ==
  /\ configFile \in ConfigFilesFound
  /\ isNixMode \in BOOLEAN
  /\ InitGatewayIdle
  /\ settings = UnresolvedSettings
  /\ InitTurn
  /\ InitHistory
  /\ pre = St
  /\ InitCfgUnused
  /\ InitMatrixUnused
  /\ InitTrackerUnused

GatewayOthersUnchanged ==
  UNCHANGED <<settings, progVars, histVars, cfgVars, matrixVars, trackerVars>>

\* let snapshot = await readConfigFileSnapshot()
ReadSnapshot ==
  /\ gwPc = "idle"
  /\ gwSnapshot' = configFile
  /\ gwTrace' = <<TraceEntry("read", "first", configFile)>>
  /\ gwOutcome' = NoOutcome
  /\ gwPc' = "migrate"
  /\ UNCHANGED <<configFile, isNixMode>>
  /\ GatewayOthersUnchanged

\* migrateLegacyIfNeeded: nothing to migrate
NoLegacyEntries ==
  /\ gwPc = "migrate"
  /\ ~gwSnapshot.legacy
  /\ gwPc' = "validate"
  /\ UNCHANGED <<configFile, isNixMode, gwSnapshot, gwTrace, gwOutcome>>
  /\ GatewayOthersUnchanged

\* migrateLegacyIfNeeded throws: Nix mode, or migrateLegacyConfig returns no config
MigrationRefused ==
  /\ gwPc = "migrate"
  /\ gwSnapshot.legacy
  /\ \E migrated \in BOOLEAN :
       /\ isNixMode \/ ~migrated
       /\ gwOutcome' = Threw(IF isNixMode THEN "legacy entries in Nix mode"
                             ELSE "auto-migration failed")
  /\ gwPc' = "done"
  /\ UNCHANGED <<configFile, isNixMode, gwSnapshot, gwTrace>>
  /\ GatewayOthersUnchanged

\* migrateLegacyIfNeeded writes the migrated configuration (the write may throw,
\* which ends the run); after a write that succeeded the file is read again
MigrationWritten ==
  /\ gwPc = "migrate"
  /\ gwSnapshot.legacy
  /\ ~isNixMode
  /\ \E writeThrows \in BOOLEAN, valid \in BOOLEAN, changes \in BOOLEAN :
       LET migrated == ConfigContent(TRUE, valid, FALSE, "migration")
           written == TraceEntry("write", "migration", migrated)
       IN IF writeThrows
          THEN /\ gwTrace' = Append(gwTrace, [written EXCEPT !.what = "migration failed"])
               /\ gwOutcome' = Threw("write failed")
               /\ gwPc' = "done"
               /\ UNCHANGED <<configFile, gwSnapshot>>
          ELSE /\ configFile' = migrated
               /\ gwSnapshot' = migrated
               /\ gwTrace' = gwTrace \o <<written>>
                               \o (IF changes
                                   THEN <<TraceEntry("info", "migrated legacy config entries",
                                                     migrated)>>
                                   ELSE <<>>)
                               \o <<TraceEntry("read", "after migration", migrated)>>
               /\ gwPc' = "validate"
               /\ UNCHANGED gwOutcome
  /\ UNCHANGED isNixMode
  /\ GatewayOthersUnchanged

\* assertSnapshotValid(snapshot) throws
FirstValidationFails ==
  /\ gwPc = "validate"
  /\ assertSnapshotValid(gwSnapshot)
  /\ gwTrace' = Append(gwTrace, TraceEntry("validate", "invalid", gwSnapshot))
  /\ gwOutcome' = Threw("invalid config")
  /\ gwPc' = "done"
  /\ UNCHANGED <<configFile, isNixMode, gwSnapshot>>
  /\ GatewayOthersUnchanged

\* assertSnapshotValid(snapshot) returns; autoEnablePluginsIfNeeded has no
\* changes, or writes them, or fails to write them and logs a warning
AutoEnablePlugins ==
  /\ gwPc = "validate"
  /\ ~assertSnapshotValid(gwSnapshot)
  /\ \E changes \in BOOLEAN, writeThrows \in BOOLEAN, valid \in BOOLEAN :
       LET enabled == ConfigContent(TRUE, valid, gwSnapshot.legacy, "auto-enable")
           validated == Append(gwTrace, TraceEntry("validate", "valid", gwSnapshot))
       IN IF ~changes
          THEN /\ gwTrace' = validated
               /\ UNCHANGED configFile
          ELSE IF writeThrows
               THEN /\ gwTrace' = validated
                                   \o <<TraceEntry("write", "auto-enable failed", enabled),
                                        TraceEntry("warn",
                                                   "failed to persist plugin auto-enable changes",
                                                   enabled)>>
                    /\ UNCHANGED configFile
               ELSE /\ gwTrace' = validated
                                   \o <<TraceEntry("write", "auto-enable", enabled),
                                        TraceEntry("info", "auto-enabled plugins", enabled)>>
                    /\ configFile' = enabled
  /\ gwPc' = "reread"
  /\ UNCHANGED <<isNixMode, gwSnapshot, gwOutcome>>
  /\ GatewayOthersUnchanged

\* snapshot = await readConfigFileSnapshot(); assertSnapshotValid(snapshot);
\* return snapshot.config
RereadAndReturn ==
  /\ gwPc = "reread"
  /\ gwSnapshot' = configFile
  /\ gwTrace' = gwTrace
                  \o <<TraceEntry("read", "last", configFile),
                       TraceEntry("validate",
                                  IF assertSnapshotValid(configFile) THEN "invalid" ELSE "valid",
                                  configFile)>>
  /\ gwOutcome' = IF assertSnapshotValid(configFile) THEN Threw("invalid config")
                  ELSE Returned(configFile)
  /\ gwPc' = "done"
  /\ UNCHANGED <<configFile, isNixMode>>
  /\ GatewayOthersUnchanged

\* the gateway is started again on the file the last run left
GatewayRestarts ==
  /\ gwPc = "done"
  /\ gwPc' = "idle"
  /\ gwSnapshot' = MissingConfig
  /\ gwTrace' = <<>>
  /\ gwOutcome' = NoOutcome
  /\ UNCHANGED <<configFile, isNixMode>>
  /\ GatewayOthersUnchanged

NextGateway ==
  \/ ReadSnapshot
  \/ NoLegacyEntries
  \/ MigrationRefused
  \/ MigrationWritten
  \/ FirstValidationFails
  \/ AutoEnablePlugins
  \/ RereadAndReturn
  \/ GatewayRestarts

SpecGateway == InitGateway /\ [][NextGateway]_vars



-----------------------------------------------------------------------------
(* Properties *)

VisibleOutputText(e) ==
  e.type = "text_delta" /\ isProjectedStream(e.stream) /\ isAcpTagVisible(e.tag)

\* C1: within one turn the characters of visible text accepted by the projector
\* (separators included) never exceed maxTurnChars, and emittedTurnChars <=
\* maxTurnChars after every operation.
C1_TurnCharBudget ==
  /\ emittedTurnChars <= settings.maxTurnChars
  /\ turnAcceptedChars <= settings.maxTurnChars
  /\ ~TurnClosed => turnAcceptedChars = emittedTurnChars

\* a fragment was cut to fit and the budget is exactly used up
C1_Witness ==
  /\ VisibleOutputText(lastEvent)
  /\ turnTruncated
  /\ accepted # <<>>
  /\ Len(accepted) < Len(lastEvent.text)
  /\ emittedTurnChars = settings.maxTurnChars
  /\ turnAcceptedChars = settings.maxTurnChars

\* C2 as stated: in every turn exactly one truncation notice is delivered if a
\* visible fragment was truncated or dropped, none otherwise, for every
\* configuration (shouldSendToolSummaries false included).
C2_Original ==
  TurnClosed => (IF turnTruncated THEN turnNotices = 1 ELSE turnNotices = 0)

\* C2 amended: with tool summaries enabled, a closed turn delivered exactly one
\* truncation notice if a visible fragment was truncated or dropped and none
\* otherwise (in live mode the notice is delivered by the truncating event itself);
\* with tool summaries disabled no notice is ever delivered.
C2_TruncationNotice ==
  /\ turnNotices <= 1
  /\ turnNotices = 1 => (turnTruncated /\ settings.shouldSendToolSummaries)
  /\ (settings.shouldSendToolSummaries /\ turnTruncated
        /\ (TurnClosed \/ settings.deliveryMode = "live")) => turnNotices = 1

\* a final_only turn truncated twice and closed with its single notice delivered
C2_Witness ==
  /\ TurnClosed
  /\ turnTruncated
  /\ turnNotices = 1
  /\ settings.deliveryMode = "final_only"
  /\ \E i \in DOMAIN out : out[i].op = "deliverBuffered" /\ out[i].src = "notice"
                           /\ out[i].meta.tag = "session_info_update"

LastToolId == eventToolCallId(lastEvent)

LastToolHash ==
  hashText(truncateText(renderToolSummaryText(lastEvent), settings.maxToolSummaryChars))

\* payloads the last operation produced (delivered or buffered) that name tool id `id`
ProducedFor(id) == SelectSeq(Produced(out), LAMBDA c : c.meta.toolCallId = id)

C4_Original ==
  (settings.repeatSuppression /\ sameAsPrev /\ ~eventIsTerminal(lastEvent))
  => /\ prevProduced + Len(Produced(out)) = 1
     /\ Produced(out) = <<>>
     /\ emittedMetaEvents = pre.emittedMetaEvents

\* C4 amended: such a pair produces at most one delivery; when the first event
\* was itself delivered or buffered, the second produces no delivery, makes no
\* collaborator call and consumes no meta quota, so the pair yields exactly one.
\* (When the first is suppressed as a duplicate start, a second event with the tag
\* tool_call_update can still be delivered.)
C4_RepeatSuppressed ==
  (settings.repeatSuppression /\ sameAsPrev /\ ~eventIsTerminal(lastEvent))
  => /\ prevProduced + Len(Produced(out)) <= 1
     /\ prevProduced = 1 => /\ out = <<>>
                            /\ pendingToolDeliveries = pre.pendingToolDeliveries
                            /\ emittedMetaEvents = pre.emittedMetaEvents

\* the first event of the pair was delivered, the repeat (not a start notice) was not
C4_Witness ==
  /\ settings.repeatSuppression /\ settings.shouldSendToolSummaries
  /\ sameAsPrev /\ ~eventIsTerminal(lastEvent) /\ ~eventIsStart(lastEvent)
  /\ LastToolId # None
  /\ prevProduced = 1
  /\ pre.emittedMetaEvents < settings.maxMetaEventsPerTurn
  /\ out = <<>>

SeparatorText == resolveHiddenBoundarySeparatorText(settings.hiddenBoundarySeparator)

NonWhitespaceTail(tail) == tail # Undefined /\ tail # <<>> /\ ~IsWhitespace(tail[Len(tail)])

\* a non-empty visible output fragment arrived while a hidden boundary was pending,
\* the separator is non-empty and the last accepted character is not whitespace
C5_Case ==
  /\ VisibleOutputText(lastEvent)
  /\ lastEvent.text # <<>>
  /\ pre.pendingHiddenBoundary
  /\ SeparatorText # <<>>
  /\ NonWhitespaceTail(pre.lastVisibleOutputTail)

\* C5 as stated: in that case a fragment starting with a non-whitespace character
\* is accepted as separator followed by fragment, and a fragment starting with
\* whitespace is accepted unchanged.
C5_Original ==
  C5_Case => accepted = (IF IsWhitespace(lastEvent.text[1]) THEN lastEvent.text
                         ELSE SeparatorText \o lastEvent.text)

\* C5 amended: the accepted text is the separator followed by the fragment (the
\* fragment alone when it starts with whitespace), cut to the characters that are
\* left of the turn's budget.
C5_SeparatorPrefixed ==
  C5_Case => accepted = Slice0(IF IsWhitespace(lastEvent.text[1]) THEN lastEvent.text
                               ELSE SeparatorText \o lastEvent.text,
                               settings.maxTurnChars - pre.emittedTurnChars)

\* the separator and the whole fragment were accepted
C5_Witness ==
  /\ C5_Case
  /\ ~IsWhitespace(lastEvent.text[1])
  /\ accepted = SeparatorText \o lastEvent.text

\* C6 as stated: a separator is prepended only if a boundary is pending, the
\* separator is non-empty, the fragment starts with a non-whitespace character and
\* the last accepted character exists and is not whitespace.
C6_Original ==
  sepInserted => /\ pre.pendingHiddenBoundary
                 /\ SeparatorText # <<>>
                 /\ lastEvent.text # <<>> /\ ~IsWhitespace(lastEvent.text[1])
                 /\ NonWhitespaceTail(pre.lastVisibleOutputTail)

\* C6 amended: ... and the last accepted character exists and, for the space
\* separator, is not whitespace; for the newline and paragraph separators, is not
\* a newline (a tail that is a space or tab still gets the separator).
C6_SeparatorOnlyIf ==
  sepInserted => /\ pre.pendingHiddenBoundary
                 /\ SeparatorText # <<>>
                 /\ lastEvent.text # <<>> /\ ~IsWhitespace(lastEvent.text[1])
                 /\ pre.lastVisibleOutputTail # Undefined
                 /\ pre.lastVisibleOutputTail # <<>>
                 /\ IF SeparatorText = <<" ">>
                    THEN ~IsWhitespace(pre.lastVisibleOutputTail[1])
                    ELSE pre.lastVisibleOutputTail[1] # "\n"

\* a newline separator was inserted after a tail that is a space
C6_Witness ==
  /\ sepInserted
  /\ SeparatorText = <<"\n">>
  /\ pre.lastVisibleOutputTail = <<" ">>

\* C7 as stated: after any text_delta on the output stream with a visible tag,
\* pendingHiddenBoundary is false (budget exhausted or empty fragment included).
C7_Original == VisibleOutputText(lastEvent) => ~pendingHiddenBoundary

\* C7 amended: after a text_delta on the output stream with a visible tag and a
\* non-empty text, pendingHiddenBoundary is false, whether or not a separator was
\* inserted or a character accepted; an empty fragment leaves the flag as it was.
C7_BoundaryCleared ==
  VisibleOutputText(lastEvent)
  => IF lastEvent.text # <<>> THEN ~pendingHiddenBoundary
     ELSE pendingHiddenBoundary = pre.pendingHiddenBoundary

\* the flag was cleared by a fragment of which nothing was accepted
C7_Witness ==
  /\ VisibleOutputText(lastEvent)
  /\ lastEvent.text # <<>>
  /\ pre.pendingHiddenBoundary
  /\ pre.emittedTurnChars >= settings.maxTurnChars
  /\ accepted = <<>>
  /\ ~pendingHiddenBoundary

HiddenToolEvent(e) ==
  e.type = "tool_call" /\ ~isAcpTagVisible(e.tag) /\ e.tag \in HIDDEN_BOUNDARY_TAGS

\* C8: a tool_call event whose tag (tool_call or tool_call_update) is invisible
\* produces no delivery and consumes no meta quota, and leaves pendingHiddenBoundary
\* true whenever it is an initial call or carries a terminal status.
C8_HiddenToolBoundary ==
  HiddenToolEvent(lastEvent)
  => /\ out = <<>>
     /\ pendingToolDeliveries = pre.pendingToolDeliveries
     /\ emittedMetaEvents = pre.emittedMetaEvents
     /\ (lastEvent.tag = "tool_call" \/ eventIsTerminal(lastEvent)) => pendingHiddenBoundary

\* an invisible initial call without a terminal status raised the flag
C8_Witness ==
  /\ HiddenToolEvent(lastEvent)
  /\ lastEvent.tag = "tool_call"
  /\ ~eventIsTerminal(lastEvent)
  /\ ~pre.pendingHiddenBoundary
  /\ pendingHiddenBoundary

\* the events C9 is about
DroppedEvent(e) ==
  \/ e.type = "text_delta" /\ e.stream \notin {None, "", "output"}
  \/ e.type \in {"text_delta", "status"} /\ ~isAcpTagVisible(e.tag)
  \/ e.type = "tool_call" /\ ~isAcpTagVisible(e.tag) /\ e.tag \notin HIDDEN_BOUNDARY_TAGS

\* C9: a text_delta on a stream other than "output", a text_delta or status event
\* with an invisible tag, and a tool_call event with an invisible tag other than
\* tool_call/tool_call_update produce no delivery and leave every field of the turn
\* state unchanged.
C9_DroppedEventsFrame ==
  DroppedEvent(lastEvent) => (out = <<>> /\ St = pre)

\* a side-stream fragment was dropped in a turn with text buffered and a pending timer
C9_Witness ==
  /\ lastEvent.type = "text_delta"
  /\ lastEvent.stream = "thought"
  /\ isAcpTagVisible(lastEvent.tag)
  /\ liveIdleTimer
  /\ liveBufferText # <<>>
  /\ emittedTurnChars > 0

MetaEvent(e) == e.type \in {"status", "tool_call"}

\* C10: emittedMetaEvents <= maxMetaEventsPerTurn after every operation, the
\* non-forced tool/status payloads produced in a turn never exceed
\* maxMetaEventsPerTurn, a tool/status event arriving with the quota exhausted is
\* dropped (nothing delivered, nothing queued), and a forced flush delivers only
\* what was queued.
C10_MetaQuota ==
  /\ emittedMetaEvents <= settings.maxMetaEventsPerTurn
  /\ turnNonForced <= settings.maxMetaEventsPerTurn
  /\ ~TurnClosed => turnNonForced = emittedMetaEvents
  /\ (MetaEvent(lastEvent) /\ pre.emittedMetaEvents >= settings.maxMetaEventsPerTurn)
       => /\ out = <<>>
          /\ pendingToolDeliveries = pre.pendingToolDeliveries
  /\ SelectSeq(out, LAMBDA c : c.op = "deliverBuffered")
       = [i \in 1..Len(SelectSeq(out, LAMBDA c : c.op = "deliverBuffered")) |->
            [pre.pendingToolDeliveries[i] EXCEPT !.op = "deliverBuffered"]]

\* a visible tool event that no dedup rule suppresses was dropped for lack of quota
C10_Witness ==
  /\ lastEvent.type = "tool_call"
  /\ isAcpTagVisible(lastEvent.tag)
  /\ settings.shouldSendToolSummaries
  /\ ~settings.repeatSuppression
  /\ pre.emittedMetaEvents = settings.maxMetaEventsPerTurn
  /\ out = <<>>

\* the last operation was a visible, non-empty fragment of which a part (or all) was
\* refused for lack of character budget
TruncatingEvent ==
  /\ VisibleOutputText(lastEvent)
  /\ lastEvent.text # <<>>
  /\ Len(accepted) < Len(lastEvent.text) + (IF sepInserted THEN Len(SeparatorText) ELSE 0)

NoticeCalls(calls) == SelectSeq(calls, LAMBDA c : c.src = "notice")

NoticeHash ==
  hashText(prefixSystemMessage(truncateText(Trim(OutputTruncated), settings.maxStatusChars)))

\* C11: the truncation notice is produced (delivered at once or queued) at most once
\* per turn and is tagged session_info_update; with tool summaries enabled the first
\* truncating fragment of a turn produces it whatever the meta quota and the last
\* status fingerprint are; producing it leaves emittedMetaEvents unchanged.
C11_TruncationNoticeForced ==
  /\ turnNoticesProduced <= 1
  /\ \A i \in DOMAIN out :
       out[i].src = "notice" => out[i].meta = [NoMeta EXCEPT !.tag = "session_info_update"]
  /\ (settings.shouldSendToolSummaries /\ TruncatingEvent) => turnNoticesProduced = 1
  /\ (settings.shouldSendToolSummaries /\ TruncatingEvent /\ ~pre.truncationNoticeEmitted)
       => Len(NoticeCalls(Produced(out))) = 1
  /\ NoticeCalls(Produced(out)) # <<>> => emittedMetaEvents = pre.emittedMetaEvents

\* the notice was produced with the quota used up and the last status fingerprint
\* equal to its own text
C11_Witness ==
  /\ TruncatingEvent
  /\ pre.emittedMetaEvents >= settings.maxMetaEventsPerTurn
  /\ settings.repeatSuppression
  /\ pre.lastStatusHash = NoticeHash
  /\ Len(NoticeCalls(Produced(out))) = 1
  /\ emittedMetaEvents = pre.emittedMetaEvents

VisibleStatus(e) == e.type = "status" /\ isAcpTagVisible(e.tag)

\* the fingerprint emitSystemStatus computes for a status text
StatusKey(text) ==
  hashText(prefixSystemMessage(truncateText(Trim(text), settings.maxStatusChars)))

\* the key the usage_update test of onEvent computes for the last event
UsageKey ==
  IF lastEvent.used # NoNum /\ lastEvent.size # NoNum
  THEN NumStr(lastEvent.used) \o <<"/">> \o NumStr(lastEvent.size)
  ELSE hashText(lastEvent.text)

\* C12: with repeat suppression, a visible status event whose trimmed, formatted
\* text equals that of the status payload most recently produced in the turn (the
\* truncation notice counts as one) produces nothing and consumes no meta quota; a
\* status with a different non-empty text is produced when quota is left, tool
\* summaries are enabled and the usage test does not suppress it.
C12_StatusRepeatSuppressed ==
  (VisibleStatus(lastEvent) /\ settings.repeatSuppression)
  => /\ (prevStatusProduced # Undefined
          /\ StatusKey(lastEvent.text) = hashText(prevStatusProduced))
         => /\ out = <<>>
            /\ pendingToolDeliveries = pre.pendingToolDeliveries
            /\ emittedMetaEvents = pre.emittedMetaEvents
     /\ (/\ settings.shouldSendToolSummaries
         /\ Trim(lastEvent.text) # <<>>
         /\ (prevStatusProduced = Undefined
               \/ StatusKey(lastEvent.text) # hashText(prevStatusProduced))
         /\ (lastEvent.tag = "usage_update" => UsageKey # pre.lastUsageTuple)
         /\ pre.emittedMetaEvents < settings.maxMetaEventsPerTurn)
         => /\ Len(Produced(out)) = 1
            /\ emittedMetaEvents = pre.emittedMetaEvents + 1

\* a status whose text differs from the last produced one only by leading
\* whitespace was suppressed while quota was left
C12_Witness ==
  /\ VisibleStatus(lastEvent)
  /\ settings.repeatSuppression /\ settings.shouldSendToolSummaries
  /\ lastEvent.tag = "session_info_update"
  /\ lastEvent.text = <<" ", "s">>
  /\ prevStatusProduced # Undefined
  /\ StatusKey(lastEvent.text) = hashText(prevStatusProduced)
  /\ pre.emittedMetaEvents < settings.maxMetaEventsPerTurn
  /\ out = <<>>

VisibleUsage(e) == VisibleStatus(e) /\ e.tag = "usage_update"

HasNumbers(e) == e.used # NoNum /\ e.size # NoNum

NothingProduced ==
  /\ out = <<>>
  /\ pendingToolDeliveries = pre.pendingToolDeliveries
  /\ emittedMetaEvents = pre.emittedMetaEvents

\* C13: with repeat suppression, a visible usage_update event whose used and size
\* are both numbers and equal those of the previous visible usage_update event of
\* the turn produces nothing, whatever its text; an event lacking one of the numbers
\* is compared by its trimmed text: it produces nothing when the previous event,
\* also without numbers, has the same trimmed text, and is not stopped by the usage
\* test when its trimmed text differs from the previous key.
C13_UsageRepeatSuppressed ==
  (VisibleUsage(lastEvent) /\ settings.repeatSuppression /\ prevUsageSeen.type = "status")
  => /\ (/\ HasNumbers(lastEvent) /\ HasNumbers(prevUsageSeen)
         /\ lastEvent.used = prevUsageSeen.used
         /\ lastEvent.size = prevUsageSeen.size) => NothingProduced
     /\ (/\ ~HasNumbers(lastEvent) /\ ~HasNumbers(prevUsageSeen)
         /\ hashText(lastEvent.text) = hashText(prevUsageSeen.text)) => NothingProduced
     /\ (/\ ~HasNumbers(lastEvent) /\ HasNumbers(prevUsageSeen)
         /\ settings.shouldSendToolSummaries
         /\ Trim(lastEvent.text) # <<>>
         /\ StatusKey(lastEvent.text) # hashText(prevStatusProduced)
         /\ pre.emittedMetaEvents < settings.maxMetaEventsPerTurn)
         => Len(Produced(out)) = 1

\* an event with the numbers of the previous usage event and another text was
\* suppressed while quota was left and its text was not the last status text
C13_Witness ==
  /\ VisibleUsage(lastEvent)
  /\ settings.repeatSuppression /\ settings.shouldSendToolSummaries
  /\ prevUsageSeen.type = "status"
  /\ HasNumbers(lastEvent) /\ HasNumbers(prevUsageSeen)
  /\ lastEvent.used = prevUsageSeen.used /\ lastEvent.size = prevUsageSeen.size
  /\ hashText(lastEvent.text) # hashText(prevUsageSeen.text)
  /\ prevStatusProduced # Undefined
  /\ StatusKey(lastEvent.text) # hashText(prevStatusProduced)
  /\ pre.emittedMetaEvents < settings.maxMetaEventsPerTurn
  /\ out = <<>>

VisibleTool(e) == e.type = "tool_call" /\ isAcpTagVisible(e.tag)

\* non-forced payloads produced in the turn before the last operation
TurnNonForcedBefore ==
  turnNonForced - Len(SelectSeq(Produced(out), LAMBDA c : ~c.forced))

\* C14: with repeat suppression disabled and tool summaries enabled, every visible
\* tool_call event and every visible status event with non-empty trimmed text
\* produces exactly one payload (delivered in live mode, queued in final_only
\* mode) and takes one unit of quota, as long as fewer than maxMetaEventsPerTurn
\* non-forced payloads were produced before it in the turn; repeated identical
\* events and events for an id already terminal included.
C14_NoDedupWhenDisabled ==
  (/\ ~settings.repeatSuppression
   /\ settings.shouldSendToolSummaries
   /\ VisibleTool(lastEvent) \/ (VisibleStatus(lastEvent) /\ Trim(lastEvent.text) # <<>>)
   /\ TurnNonForcedBefore < settings.maxMetaEventsPerTurn)
  => /\ Len(Produced(out)) = 1
     /\ emittedMetaEvents = pre.emittedMetaEvents + 1
     /\ settings.deliveryMode = "final_only"
          => pendingToolDeliveries = Append(pre.pendingToolDeliveries, Produced(out)[1])

\* in final_only mode a terminal event repeated for an id already terminal was
\* queued a second time
C14_Witness ==
  /\ ~settings.repeatSuppression /\ settings.shouldSendToolSummaries
  /\ settings.deliveryMode = "final_only"
  /\ VisibleTool(lastEvent)
  /\ eventIsTerminal(lastEvent)
  /\ seenBefore /\ sameAsPrev
  /\ Len(Produced(out)) = 1
  /\ Len(pendingToolDeliveries) = 2

\* the hard boundary of a live buffer
HardBoundary(text) ==
  /\ text # <<>>
  /\ \/ Len(text) >= ACP_LIVE_HARD_FLUSH_CHARS
     \/ Len(text) >= 2 /\ SubSeq(text, Len(text) - 1, Len(text)) = <<"\n", "\n">>
     \/ IsWhitespace(text[Len(text)]) /\ EndsWithSentence(SubSeq(text, 1, Len(text) - 1))
     \/ Len(text) >= ACP_LIVE_SOFT_FLUSH_CHARS /\ IsWhitespace(text[Len(text)])

CallsOf(op) == SelectSeq(out, LAMBDA c : c.op = op)

\* C15: in live mode an accepted fragment that makes the live buffer satisfy a hard
\* boundary has the whole buffer appended to the chunker and drained into the
\* pipeline by the same onEvent call, the timer disarmed; after every operation the
\* live buffer is shorter than the hard ceiling and satisfies no hard boundary.
C15_HardBoundaryFlush ==
  /\ Len(liveBufferText) < ACP_LIVE_HARD_FLUSH_CHARS
  /\ ~HardBoundary(liveBufferText)
  /\ (/\ settings.deliveryMode = "live"
      /\ VisibleOutputText(lastEvent)
      /\ accepted # <<>>
      /\ HardBoundary(pre.liveBufferText \o accepted))
     => /\ liveBufferText = <<>>
        /\ ~liveIdleTimer
        /\ chunkerBuffer = <<>>
        /\ Len(CallsOf("append")) = 1
        /\ CallsOf("append")[1].text = pre.liveBufferText \o accepted
        /\ Len(CallsOf("enqueue")) = 1
        /\ CallsOf("enqueue")[1].text = pre.chunkerBuffer \o pre.liveBufferText \o accepted

\* a fragment brought the buffer to the hard ceiling, not at the end of a sentence
\* or a line, and the buffer was forwarded with the timer that was pending disarmed
C15_Witness ==
  /\ settings.deliveryMode = "live"
  /\ VisibleOutputText(lastEvent)
  /\ pre.liveBufferText # <<>>
  /\ pre.liveIdleTimer
  /\ Len(pre.liveBufferText \o accepted) = ACP_LIVE_HARD_FLUSH_CHARS
  /\ ~IsWhitespace(accepted[Len(accepted)])
  /\ liveBufferText = <<>>
  /\ ~liveIdleTimer
  /\ Len(CallsOf("enqueue")) = 1

\* the idle heuristic of a live buffer: long enough, ending in . ! or ? (closing
\* brackets, quotes and trailing whitespace aside), or holding a newline
IdleHeuristic(text) ==
  \/ Len(text) >= ACP_LIVE_IDLE_MIN_CHARS
  \/ EndsWithSentence(TrimEnd(text))
  \/ \E i \in DOMAIN text : text[i] = "\n"

\* C16: the idle timer is pending only in live mode with a non-empty live buffer;
\* when it fires and the idle heuristic holds, the buffer is emptied, its text is
\* appended to the chunker and drained, and the timer is not re-armed; otherwise
\* nothing is forwarded, the turn state is unchanged and the timer is armed again.
C16_IdleTimer ==
  /\ liveIdleTimer => (settings.deliveryMode = "live" /\ liveBufferText # <<>>)
  /\ lastEvent.type = "idle_timer"
     => /\ pre.liveIdleTimer
        /\ pre.liveBufferText # <<>>
        /\ IF IdleHeuristic(pre.liveBufferText)
           THEN /\ liveBufferText = <<>>
                /\ ~liveIdleTimer
                /\ chunkerBuffer = <<>>
                /\ Len(out) = 2
                /\ out[1].op = "append" /\ out[1].text = pre.liveBufferText
                /\ out[2].op = "enqueue"
                /\ out[2].text = pre.chunkerBuffer \o pre.liveBufferText
           ELSE /\ out = <<>>
                /\ St = pre
                /\ liveIdleTimer

\* the timer fired on a buffer one character short of the idle minimum and was
\* armed again with the buffer untouched
C16_Witness ==
  /\ lastEvent.type = "idle_timer"
  /\ Len(pre.liveBufferText) = ACP_LIVE_IDLE_MIN_CHARS - 1
  /\ ~IdleHeuristic(pre.liveBufferText)
  /\ out = <<>>
  /\ liveBufferText = pre.liveBufferText
  /\ liveIdleTimer

\* C17: in both delivery modes the text enqueued to the reply pipeline during a
\* turn, followed by what the chunker and the live buffer still hold, is the text
\* accepted during the turn, in acceptance order and each character once; when done
\* or error has been processed all of it has been enqueued, the pipeline has been
\* force-flushed and nothing is left in the chunker or the live buffer.
C17_AcceptedTextForwarded ==
  /\ ~TurnClosed
       => turnAcceptedText = turnEnqueuedText \o chunkerBuffer \o liveBufferText
  /\ TurnClosed
       => /\ turnEnqueuedText = turnAcceptedText
          /\ chunkerBuffer = <<>>
          /\ liveBufferText = <<>>
          /\ ~liveIdleTimer
          /\ out # <<>>
          /\ out[Len(out)].op = "pipelineFlush" /\ out[Len(out)].forced

\* done/error forwarded live-buffer text that did not satisfy the idle heuristic
C17_Witness ==
  /\ TurnClosed
  /\ settings.deliveryMode = "live"
  /\ pre.liveBufferText # <<>>
  /\ pre.liveIdleTimer
  /\ ~IdleHeuristic(pre.liveBufferText)
  /\ turnEnqueuedText = turnAcceptedText
  /\ EnqueuedText(out) = pre.liveBufferText

ForcedOperation ==
  lastEvent.type \in {"done", "error"} \/ (lastEvent.type = "flush" /\ lastEvent.force)

\* C18: in final_only mode no chunk is enqueued to the pipeline while text_delta,
\* status or tool_call events are processed or during flush(false): accepted text
\* is only appended to the chunker; flush(true) and done/error enqueue what the
\* chunker holds and leave it empty, so fragments followed by done are enqueued
\* concatenated, at done.
C18_FinalOnlyDefersText ==
  settings.deliveryMode = "final_only"
  => /\ liveBufferText = <<>>
     /\ ~ForcedOperation
          => /\ CallsOf("enqueue") = <<>>
             /\ chunkerBuffer = pre.chunkerBuffer \o accepted
             /\ accepted # <<>> => (Len(CallsOf("append")) = 1
                                    /\ CallsOf("append")[1].text = accepted)
     /\ ForcedOperation
          => /\ EnqueuedText(out) = pre.chunkerBuffer
             /\ chunkerBuffer = <<>>

\* two fragments were held by the chunker and enqueued as one text at done
C18_Witness ==
  /\ settings.deliveryMode = "final_only"
  /\ TurnClosed
  /\ ~turnTruncated
  /\ Len(turnAcceptedText) = 2
  /\ pre.chunkerBuffer = turnAcceptedText
  /\ Len(CallsOf("enqueue")) = 1
  /\ CallsOf("enqueue")[1].text = turnAcceptedText

AsDelivered(entries) == [i \in 1..Len(entries) |-> [entries[i] EXCEPT !.op = "deliverBuffered"]]

\* C19: in final_only mode the delivery callback is not invoked while text_delta,
\* status or tool_call events are processed or during flush(false): every payload
\* such an operation produces is added at the end of the queue; flush(true) and
\* done/error deliver the queued payloads in queue order, which is the order of
\* their triggering events, and leave the queue empty.
C19_FinalOnlyDefersMeta ==
  settings.deliveryMode = "final_only"
  => /\ CallsOf("deliver") = <<>>
     /\ ~ForcedOperation
          => /\ CallsOf("deliverBuffered") = <<>>
             /\ pendingToolDeliveries = pre.pendingToolDeliveries \o CallsOf("buffer")
     /\ ForcedOperation
          => /\ CallsOf("deliverBuffered") = AsDelivered(pre.pendingToolDeliveries)
             /\ CallsOf("buffer") = <<>>
             /\ pendingToolDeliveries = <<>>

\* a status payload and then a tool payload were queued and delivered in that order
\* by a forced flush
C19_Witness ==
  /\ settings.deliveryMode = "final_only"
  /\ ForcedOperation
  /\ Len(pre.pendingToolDeliveries) = 2
  /\ pre.pendingToolDeliveries[1].src = "status"
  /\ pre.pendingToolDeliveries[2].src = "tool"
  /\ CallsOf("deliverBuffered") = AsDelivered(pre.pendingToolDeliveries)
  /\ pendingToolDeliveries = <<>>

\* C20: in live mode a tool or status payload is passed to the delivery callback
\* as the last call of its operation, after the live buffer was moved to the
\* chunker, the chunker drained into the pipeline and the pipeline force-flushed:
\* at that point all text accepted in the turn has been enqueued and the timer is
\* disarmed; nothing is queued for later, so payloads are delivered in event order.
C20_LiveOrder ==
  settings.deliveryMode = "live"
  => /\ pendingToolDeliveries = <<>>
     /\ CallsOf("buffer") = <<>> /\ CallsOf("deliverBuffered") = <<>>
     /\ Len(CallsOf("deliver")) <= 1
     /\ CallsOf("deliver") # <<>>
          => /\ Len(out) >= 2
             /\ out[Len(out)].op = "deliver"
             /\ out[Len(out) - 1].op = "pipelineFlush" /\ out[Len(out) - 1].forced
             /\ liveBufferText = <<>>
             /\ chunkerBuffer = <<>>
             /\ ~liveIdleTimer
             /\ turnEnqueuedText = turnAcceptedText
             /\ EnqueuedText(out) = pre.chunkerBuffer \o pre.liveBufferText \o accepted

\* a tool summary was delivered after the text waiting in the live buffer
C20_Witness ==
  /\ settings.deliveryMode = "live"
  /\ VisibleTool(lastEvent)
  /\ pre.liveBufferText # <<>>
  /\ pre.liveIdleTimer
  /\ Len(out) = 4
  /\ out[1].op = "append" /\ out[1].text = pre.liveBufferText
  /\ out[2].op = "enqueue" /\ out[2].text = pre.liveBufferText
  /\ out[3].op = "pipelineFlush"
  /\ out[4].op = "deliver" /\ out[4].src = "tool"

\* C21: in live mode, between operations, the idle timer is pending exactly when
\* the live buffer is non-empty; after flush(force), for either value of force,
\* the timer is cancelled and the live buffer is empty.
C21_TimerIffBuffered ==
  settings.deliveryMode = "live"
  => /\ liveIdleTimer <=> (liveBufferText # <<>>)
     /\ lastEvent.type = "flush" => (~liveIdleTimer /\ liveBufferText = <<>>)

\* an unforced flush emptied a live buffer whose timer was pending
C21_Witness ==
  /\ settings.deliveryMode = "live"
  /\ lastEvent.type = "flush" /\ ~lastEvent.force
  /\ pre.liveIdleTimer
  /\ pre.liveBufferText # <<>>
  /\ ~liveIdleTimer
  /\ liveBufferText = <<>>
  /\ EnqueuedText(out) = pre.liveBufferText

\* C22: after done or error every turn-scoped field has its initial value (counters
\* 0, latch false, fingerprints and output tail unset, no pending boundary, live
\* buffer, queue and lifecycle map empty), no idle timer is pending and the chunker
\* holds nothing: the next turn starts from the state of a new projector.
C22_TurnReset ==
  TurnClosed
  => /\ emittedTurnChars = 0
     /\ emittedMetaEvents = 0
     /\ truncationNoticeEmitted = FALSE
     /\ lastStatusHash = Undefined
     /\ lastToolHash = Undefined
     /\ lastUsageTuple = Undefined
     /\ lastVisibleOutputTail = Undefined
     /\ pendingHiddenBoundary = FALSE
     /\ liveBufferText = <<>>
     /\ pendingToolDeliveries = <<>>
     /\ toolLifecycleById = EmptyLifecycle
     /\ liveIdleTimer = FALSE
     /\ chunkerBuffer = <<>>

\* a turn that used budget and quota, latched the truncation notice, recorded
\* fingerprints and a tool lifecycle and had payloads queued was reset
C22_Witness ==
  /\ TurnClosed
  /\ pre.emittedTurnChars = settings.maxTurnChars
  /\ pre.emittedMetaEvents > 0
  /\ pre.truncationNoticeEmitted
  /\ pre.lastStatusHash # Undefined
  /\ pre.lastToolHash # Undefined
  /\ pre.lastVisibleOutputTail # Undefined
  /\ pre.toolLifecycleById # EmptyLifecycle
  /\ pre.pendingToolDeliveries # <<>>
  /\ pre.chunkerBuffer # <<>>
  /\ emittedTurnChars = 0 /\ emittedMetaEvents = 0
  /\ toolLifecycleById = EmptyLifecycle
  /\ pendingToolDeliveries = <<>>

DoneEvent == [NoEvent EXCEPT !.type = "done"]

ErrorEvent == [NoEvent EXCEPT !.type = "error"]

\* C23: from every reachable state an error event makes the same collaborator
\* calls, in the same order, and leaves the same state as a done event; an error
\* event that was processed did what done would have done.
C23_ErrorLikeDone ==
  /\ onEvent(St, ErrorEvent) = onEvent(St, DoneEvent)
  /\ lastEvent.type = "error"
       => /\ out = onEvent(pre, DoneEvent).out
          /\ St = [onEvent(pre, DoneEvent) EXCEPT !.out = <<>>, !.awaits = <<>>]

\* an error event closed a final_only turn with text in the chunker and payloads
\* queued
C23_Witness ==
  /\ lastEvent.type = "error"
  /\ pre.chunkerBuffer # <<>>
  /\ pre.pendingToolDeliveries # <<>>
  /\ out = onEvent(pre, DoneEvent).out
  /\ Len(out) >= 3
  /\ emittedTurnChars = 0

\* the last operation was a status or tool event of live mode whose payload was
\* handed to the delivery callback, which threw
FailedLiveDelivery ==
  /\ threw
  /\ settings.deliveryMode = "live"
  /\ MetaEvent(lastEvent)
  /\ out # <<>>
  /\ out[Len(out)].op = "deliver"

\* C24: when the delivery callback throws on a tool or status payload in live
\* mode, the payload was attempted once, the quota unit it took stays consumed
\* and its fingerprint stays recorded: the same event submitted again in the
\* turn is suppressed as a duplicate (it produces no payload).
C24_Original ==
  FailedLiveDelivery
  => /\ Len(CallsOf("deliver")) = 1
     /\ emittedMetaEvents = pre.emittedMetaEvents + 1
     /\ Produced(onEvent(St, lastEvent).out) = <<>>

\* xs is the first Len(xs) elements of ys
IsPrefix(xs, ys) == Len(xs) <= Len(ys) /\ xs = SubSeq(ys, 1, Len(xs))

\* C25: a tool/status payload is handed to the delivery callback at most once,
\* also when the callback throws.  Live mode stores no payload: the queue is
\* always empty, nothing is delivered from it and an operation hands over at
\* most the one payload it produced.  In final_only mode a payload is handed
\* over only from the queue; an operation that does not force a flush attempts
\* nothing and appends what it produced; a forced flush (also done/error)
\* attempts the queued payloads in order, each once, stopping at the first
\* throw, and leaves the queue empty even then, so neither the failing payload
\* nor those behind it can be attempted by a later flush.
C25_AtMostOnce ==
  /\ settings.deliveryMode = "live"
       => /\ pendingToolDeliveries = <<>>
          /\ CallsOf("deliverBuffered") = <<>>
          /\ CallsOf("buffer") = <<>>
          /\ Len(CallsOf("deliver")) <= 1
  /\ settings.deliveryMode = "final_only"
       => /\ CallsOf("deliver") = <<>>
          /\ ~ForcedOperation
               => /\ CallsOf("deliverBuffered") = <<>>
                  /\ pendingToolDeliveries = pre.pendingToolDeliveries \o CallsOf("buffer")
          /\ ForcedOperation
               => /\ IsPrefix(CallsOf("deliverBuffered"),
                              AsDelivered(pre.pendingToolDeliveries))
                  /\ ~threw => CallsOf("deliverBuffered")
                                 = AsDelivered(pre.pendingToolDeliveries)
                  /\ CallsOf("buffer") = <<>>
                  /\ pendingToolDeliveries = <<>>

\* a forced flush found two payloads queued, the callback threw on the first: one
\* attempt was made and the queue is empty, the second payload is not kept
C25_Witness ==
  /\ settings.deliveryMode = "final_only"
  /\ lastEvent.type = "flush" /\ lastEvent.force
  /\ threw
  /\ Len(pre.pendingToolDeliveries) = 2
  /\ Len(CallsOf("deliverBuffered")) = 1
  /\ pendingToolDeliveries = <<>>
  /\ SelectSeq(flush(St, TRUE).out, LAMBDA c : c.op = "deliverBuffered") = <<>>

\* the turn so far is a tool start with an id followed by a terminal
\* tool_call_update for the same id, both visible, with repeat suppression on
ToolStartThenTerminal ==
  /\ settings.repeatSuppression
  /\ settings.shouldSendToolSummaries
  /\ toolStart # NoToolStart
  /\ VisibleTool(lastEvent)
  /\ lastEvent.tag = "tool_call_update"
  /\ lastEvent.toolCallId = toolStart.event.toolCallId
  /\ eventIsTerminal(lastEvent)

\* the payloads the queue would hand to the callback at the next forced flush
NextForcedFlush == SelectSeq(flush(St, TRUE).out, LAMBDA c : c.op = "deliverBuffered")

Resolved == settings # UnresolvedSettings

\* result is the integer nearest to the configured number (halves upwards) brought
\* into lo..hi, or the default when the configured value is not a finite number
BudgetResolved(result, value, lo, hi, default) ==
  /\ result \in lo..hi
  /\ value.kind # "number" => result = default
  /\ value.kind = "number"
       => /\ lo < result => 10 * result - 5 <= value.tenths
          /\ result < hi => value.tenths < 10 * result + 5

\* C28: the resolved settings hold deliveryMode live or final_only (final_only
\* when the configured one is absent or invalid), a separator among none, space,
\* newline, paragraph (absent or invalid: space in live mode, paragraph
\* otherwise) and four integer budgets within 1..500000 (maxTurnChars), 64..8000
\* (maxToolSummaryChars, maxStatusChars) and 1..2000 (maxMetaEventsPerTurn), each
\* the rounded configured value clamped to its bounds, or the default 24000, 320,
\* 320, 64 when the value is absent or not a finite number.
C28_SettingsResolved ==
  Resolved
  => /\ settings.deliveryMode \in {"live", "final_only"}
     /\ settings.deliveryMode =
          (IF cfg.present /\ cfg.deliveryMode \in {"live", "final_only"}
           THEN cfg.deliveryMode ELSE "final_only")
     /\ settings.hiddenBoundarySeparator \in {"none", "space", "newline", "paragraph"}
     /\ settings.hiddenBoundarySeparator =
          (IF cfg.present
              /\ cfg.hiddenBoundarySeparator \in {"none", "space", "newline", "paragraph"}
           THEN cfg.hiddenBoundarySeparator
           ELSE IF settings.deliveryMode = "live" THEN "space" ELSE "paragraph")
     /\ BudgetResolved(settings.maxTurnChars, cfg.maxTurnChars, 1, 500000, 24000)
     /\ BudgetResolved(settings.maxToolSummaryChars, cfg.maxToolSummaryChars, 64, 8000, 320)
     /\ BudgetResolved(settings.maxStatusChars, cfg.maxStatusChars, 64, 8000, 320)
     /\ BudgetResolved(settings.maxMetaEventsPerTurn, cfg.maxMetaEventsPerTurn, 1, 2000, 64)

\* live mode with an invalid separator, 500000.5 for maxTurnChars and
\* maxStatusChars, 1.5 for maxToolSummaryChars and maxMetaEventsPerTurn
C28_Witness ==
  /\ Resolved
  /\ cfg.deliveryMode = "live"
  /\ cfg.hiddenBoundarySeparator = "tab"
  /\ cfg.maxTurnChars = Tenths(5000005)
  /\ cfg.maxToolSummaryChars = Tenths(15)
  /\ settings.hiddenBoundarySeparator = "space"
  /\ settings.maxTurnChars = 500000
  /\ settings.maxStatusChars = 8000
  /\ settings.maxToolSummaryChars = 64
  /\ settings.maxMetaEventsPerTurn = 2

KnownTags ==
  {"agent_message_chunk", "tool_call", "tool_call_update", "usage_update",
   "available_commands_update", "current_mode_update", "config_option_update",
   "session_info_update", "plan", "agent_thought_chunk"}

\* C27: isAcpTagVisible answers true for an absent tag; for a tag the configured
\* tagVisibility map holds, the boolean of the map; for any other known tag its
\* default, which is true for agent_message_chunk and false for the nine others.
C27_TagVisibility ==
  tagQuery # NoQuery
  => /\ tagQuery = None => tagVisible
     /\ (tagQuery # None /\ tagQuery \in DOMAIN cfg.tagVisibility)
          => tagVisible = cfg.tagVisibility[tagQuery]
     /\ (tagQuery \in KnownTags /\ tagQuery \notin DOMAIN cfg.tagVisibility)
          => tagVisible = (tagQuery = "agent_message_chunk")

\* the map hides agent_message_chunk and the query answered false
C27_Witness ==
  /\ tagQuery = "agent_message_chunk"
  /\ "agent_message_chunk" \in DOMAIN cfg.tagVisibility
  /\ ~cfg.tagVisibility["agent_message_chunk"]
  /\ ~tagVisible

Settled == outcome.state # "pending"

\* the start promise had rejected when the grace timer fired
RejectedDuringGrace == startPromise = "rejected" /\ ~rejectedAfterSettle

\* what holds of a call that went past client.start(): it settles when the grace
\* timer has elapsed, resolved unless the start promise had rejected by then, and
\* then rejected with the error of the start promise
SettledByGraceTimer ==
  /\ outcome.at >= calledAt + graceMsOf(graceMsParam)
  /\ outcome.state = "resolved" <=> ~RejectedDuringGrace
  /\ outcome.state = "rejected" => outcome.err = startBehaviour.err

\* C29 as stated: the returned promise settles only when the grace timer
\* elapses, never earlier; it resolves if client.start() has not rejected by
\* then (also when the start promise never settles) and rejects with the start
\* error if client.start() rejected during the grace period.
C29_Original ==
  /\ Settled => SettledByGraceTimer
  /\ (gracePc = "waiting" /\ now < graceDeadline) => ~Settled

\* C29: as stated when client.start() returns a promise; when client.start()
\* throws, the returned promise rejects at once with the thrown error and no
\* grace timer is set.
C29_GraceOutcome ==
  /\ (Settled /\ startBehaviour.kind # "throws") => SettledByGraceTimer
  /\ (Settled /\ startBehaviour.kind = "throws")
       => /\ outcome = [state |-> "rejected", err |-> startBehaviour.err, at |-> calledAt]
          /\ graceDeadline = NoNum
  /\ (gracePc = "waiting" /\ now < graceDeadline) => ~Settled

\* the start promise rejected one clock step into a grace period of 3000 ms and
\* the returned promise rejected with its error when the timer fired
C29_Witness ==
  /\ graceMsParam = 3 * ClockStep
  /\ startRejectedAt = calledAt + ClockStep
  /\ outcome = [state |-> "rejected", err |-> startBehaviour.err,
                at |-> calledAt + 3 * ClockStep]

\* client.start() has failed: it threw, or the promise it returned has rejected
StartHasFailed ==
  \/ gracePc # "idle" /\ startBehaviour.kind = "throws"
  \/ startPromise = "rejected"

\* C30: where onError is given, it has been called exactly once, with the error,
\* once client.start() has failed (by throwing, by rejecting during the grace
\* period, or by rejecting after the returned promise resolved), and not at all
\* before; a rejection after the returned promise resolved leaves it resolved.
C30_OnErrorOnce ==
  /\ hasOnError
       => onErrorCalls = (IF StartHasFailed THEN <<startBehaviour.err>> ELSE <<>>)
  /\ rejectedAfterSettle
       => /\ outcome.state = "resolved"
          /\ outcome.at <= startRejectedAt

\* the returned promise resolved after the default grace period, the start
\* promise rejected a clock step later and onError got that error
C30_Witness ==
  /\ hasOnError
  /\ graceMsParam = NoNum
  /\ outcome.state = "resolved"
  /\ outcome.at = calledAt + MATRIX_CLIENT_STARTUP_GRACE_MS
  /\ rejectedAfterSettle
  /\ startRejectedAt = outcome.at + ClockStep
  /\ onErrorCalls = <<"late disconnect">>

\* C32: once an invisible tool event has set pendingHiddenBoundary, the flag
\* stays set until a visible output text_delta is processed or the turn is
\* reset: no other operation, in particular no invisible tool_call_update
\* without a terminal status, clears it.
C32_Original ==
  (/\ pre.pendingHiddenBoundary
   /\ ~VisibleOutputText(lastEvent)
   /\ lastEvent.type \notin {"done", "error"})
  => pendingHiddenBoundary

\* the last operation was a visible start event (tag tool_call or status
\* in_progress) for a tool id, with repeat suppression on
StartEventForId ==
  /\ settings.repeatSuppression
  /\ VisibleTool(lastEvent)
  /\ eventIsStart(lastEvent)
  /\ LastToolId # None

\* the id of the last event was marked started when the event arrived
WasStarted ==
  /\ LastToolId \in DOMAIN pre.toolLifecycleById
  /\ pre.toolLifecycleById[LastToolId].started

\* C33: with repeat suppression on, a start event for a tool id produces no
\* payload (delivered or queued) and takes no quota when a start event for that
\* id has produced one earlier in the turn, or when the id is marked started,
\* whatever the event renders to: at most one start notice per id and turn.
C33_OneStartPerId ==
  (StartEventForId /\ (startedBefore \/ WasStarted))
  => /\ Produced(out) = <<>>
     /\ emittedMetaEvents = pre.emittedMetaEvents
     /\ toolLifecycleById = pre.toolLifecycleById

\* a start event for an id whose start was delivered earlier in the turn, with a
\* rendering that differs from the one recorded for the id, produced nothing
C33_Witness ==
  /\ StartEventForId
  /\ startedBefore
  /\ WasStarted
  /\ pre.toolLifecycleById[LastToolId].lastRenderedHash # LastToolHash
  /\ ~eventIsTerminal(lastEvent)
  /\ pre.emittedMetaEvents < settings.maxMetaEventsPerTurn
  /\ Produced(out) = <<>>

\* the record the lifecycle map held for the id of the last event when it arrived
PreLifecycle ==
  IF LastToolId \in DOMAIN pre.toolLifecycleById
  THEN pre.toolLifecycleById[LastToolId] ELSE NewLifecycle

\* the last operation was a visible tool event with an id that none of the three
\* per-id tests suppressed (repeat suppression on, summaries on)
PassedIdDedup ==
  /\ settings.repeatSuppression
  /\ settings.shouldSendToolSummaries
  /\ VisibleTool(lastEvent)
  /\ LastToolId # None
  /\ ~(eventIsTerminal(lastEvent) /\ PreLifecycle.terminal)
  /\ ~(eventIsStart(lastEvent) /\ PreLifecycle.started)
  /\ PreLifecycle.lastRenderedHash # LastToolHash

ToolPayloads(calls) == SelectSeq(Produced(calls), LAMBDA c : c.src = "tool")

\* C34: a visible tool event with an id that passes the dedup tests marks its id
\* started (if it is a start), terminal (if its status is terminal) and records
\* its hash, whether or not the quota then admits it: when the quota is
\* exhausted the event produces nothing and takes no unit, yet the record of
\* the id is updated.  lastToolHash changes only in an operation that produced
\* a tool payload, and then it is the hash of that event.
C34_LifecycleBeforeQuota ==
  /\ PassedIdDedup
       => /\ LastToolId \in DOMAIN toolLifecycleById
          /\ toolLifecycleById[LastToolId]
               = [started |-> PreLifecycle.started \/ eventIsStart(lastEvent),
                  terminal |-> PreLifecycle.terminal \/ eventIsTerminal(lastEvent),
                  lastRenderedHash |-> LastToolHash]
          /\ pre.emittedMetaEvents >= settings.maxMetaEventsPerTurn
               => /\ Produced(out) = <<>>
                  /\ emittedMetaEvents = pre.emittedMetaEvents
                  /\ lastToolHash = pre.lastToolHash
  /\ (lastToolHash # pre.lastToolHash /\ lastEvent.type \notin {"done", "error"})
       => /\ ToolPayloads(out) # <<>>
          /\ lastToolHash = LastToolHash

\* the quota was exhausted when a terminal update for a new id arrived: nothing
\* was produced, lastToolHash kept its value, the id is marked terminal
C34_Witness ==
  /\ PassedIdDedup
  /\ pre.emittedMetaEvents >= settings.maxMetaEventsPerTurn
  /\ LastToolId \notin DOMAIN pre.toolLifecycleById
  /\ eventIsTerminal(lastEvent)
  /\ Produced(out) = <<>>
  /\ toolLifecycleById[LastToolId].terminal
  /\ toolLifecycleById[LastToolId].lastRenderedHash = LastToolHash
  /\ lastToolHash # LastToolHash

\* C35: in live mode, at every await of the delivery callback or of the
\* pipeline flush made by onEvent or flush, no idle timer is pending and the
\* live buffer is empty.
C35_NoTimerWhileSuspended ==
  settings.deliveryMode = "live"
    => \A i \in 1..Len(awaits) : ~awaits[i].timer /\ awaits[i].buffer = <<>>

\* a text event arrived with the idle timer pending and text in the live buffer,
\* was cut by the budget, and its truncation notice awaited the pipeline flush
\* and the callback
C35_Witness ==
  /\ settings.deliveryMode = "live"
  /\ lastEvent.type = "text_delta"
  /\ pre.liveIdleTimer
  /\ pre.liveBufferText # <<>>
  /\ accepted # <<>>
  /\ Len(awaits) = 2
  /\ awaits[1].op = "pipelineFlush"
  /\ awaits[2].op = "deliver"

\* the turn state r is the one a projector is created with
InitialTurnState(r) ==
  /\ r.emittedTurnChars = 0
  /\ r.emittedMetaEvents = 0
  /\ r.truncationNoticeEmitted = FALSE
  /\ r.lastStatusHash = Undefined
  /\ r.lastToolHash = Undefined
  /\ r.lastUsageTuple = Undefined
  /\ r.lastVisibleOutputTail = Undefined
  /\ r.pendingHiddenBoundary = FALSE
  /\ r.liveBufferText = <<>>
  /\ r.liveIdleTimer = FALSE
  /\ r.pendingToolDeliveries = <<>>
  /\ r.toolLifecycleById = EmptyLifecycle
  /\ r.chunkerBuffer = <<>>

\* the last operation was a done/error event whose forced flush threw
FailedTerminal == lastEvent.type \in {"done", "error"} /\ threw

\* C36: when the delivery callback or the pipeline flush throws during the
\* forced flush of a done/error event, the turn state is not reset: the
\* counters, the dedup fingerprints and the lifecycle map keep the values they
\* had when the event arrived.  Processing done or error again with
\* collaborators that do not fail completes and leaves the turn state a
\* projector is created with.
C36_FailedTerminalKeepsTurn ==
  FailedTerminal
  => /\ emittedTurnChars = pre.emittedTurnChars
     /\ emittedMetaEvents = pre.emittedMetaEvents
     /\ truncationNoticeEmitted = pre.truncationNoticeEmitted
     /\ lastStatusHash = pre.lastStatusHash
     /\ lastToolHash = pre.lastToolHash
     /\ lastUsageTuple = pre.lastUsageTuple
     /\ toolLifecycleById = pre.toolLifecycleById
     /\ \A e \in TerminalEvents :
          LET r == onEvent(Start(0), e)
          IN ~r.threw /\ InitialTurnState(r)

\* the callback threw on a queued payload while done was processed, with
\* counters, fingerprints and lifecycle map holding values of the turn
C36_Witness ==
  /\ FailedTerminal
  /\ out[Len(out)].op = "deliverBuffered"
  /\ emittedTurnChars > 0
  /\ emittedMetaEvents > 0
  /\ lastToolHash # Undefined
  /\ toolLifecycleById # EmptyLifecycle
  /\ chunkerBuffer # <<>>

\* the pipeline flush threw while done/error was processed in a turn that had
\* accepted text
C36_WitnessPipeline ==
  /\ FailedTerminal
  /\ out[Len(out)].op = "pipelineFlush"
  /\ emittedTurnChars > 0

\* positions in the calls of the last operation
PositionsOf(op) == {i \in 1..Len(out) : out[i].op = op}

\* C37: in final_only mode an operation that forces a flush (flush(true), done,
\* error) hands every payload the queue held to the delivery callback, in
\* order, before it enqueues any text to the reply pipeline; nothing is
\* enqueued by any other operation of the mode, so no text chunk of the turn
\* precedes a buffered payload of the turn, whatever the order of the events.
C37_BufferedBeforeText ==
  settings.deliveryMode = "final_only"
    => /\ ~ForcedOperation => PositionsOf("enqueue") = {}
       /\ ForcedOperation
            => /\ AsDelivered(pre.pendingToolDeliveries) = CallsOf("deliverBuffered")
               /\ \A i \in PositionsOf("deliverBuffered"), j \in PositionsOf("enqueue") : i < j

\* text arrived before the tool event of the turn, and the forced flush
\* delivered the tool payload first and enqueued the text after it
C37_Witness ==
  /\ settings.deliveryMode = "final_only"
  /\ ForcedOperation
  /\ nEvents = 3
  /\ turnAcceptedText # <<>>
  /\ pre.lastToolHash # Undefined
  /\ pre.lastVisibleOutputTail # Undefined
  /\ Len(pre.pendingToolDeliveries) = 1
  /\ Len(out) = 3
  /\ out[1].op = "deliverBuffered"
  /\ out[2].op = "enqueue"
  /\ out[3].op = "pipelineFlush"

\* the projector was created with shouldSendToolSummaries = false and the last
\* operation was an event (text, status or tool call)
SummariesOffEvent ==
  /\ ~settings.shouldSendToolSummaries
  /\ lastEvent.type \in {"text_delta", "status", "tool_call"}

\* nothing reached the callback with kind "tool" and nothing was queued
NoToolKindCalls ==
  /\ SelectSeq(out, LAMBDA c : c.kind = "tool") = <<>>
  /\ pendingToolDeliveries = <<>>

\* C38 as stated: with shouldSendToolSummaries = false the callback is never
\* invoked with kind "tool", nothing is queued, and no event modifies the dedup
\* fingerprints (lastStatusHash, lastToolHash, lastUsageTuple), the lifecycle
\* map or the meta counter.
C38_Original ==
  /\ ~settings.shouldSendToolSummaries => NoToolKindCalls
  /\ SummariesOffEvent
       => /\ lastStatusHash = pre.lastStatusHash
          /\ lastToolHash = pre.lastToolHash
          /\ lastUsageTuple = pre.lastUsageTuple
          /\ toolLifecycleById = pre.toolLifecycleById
          /\ emittedMetaEvents = pre.emittedMetaEvents

\* a visible usage_update status whose tuple differs from the recorded one, with
\* repeat suppression on
NewUsageTuple ==
  /\ VisibleStatus(lastEvent)
  /\ lastEvent.tag = "usage_update"
  /\ settings.repeatSuppression
  /\ usageTupleOf(lastEvent) # pre.lastUsageTuple

\* C38 (amended): with shouldSendToolSummaries = false the callback is never
\* invoked with kind "tool", nothing is queued, and no event modifies
\* lastStatusHash, lastToolHash, the lifecycle map or the meta counter; the
\* usage fingerprint lastUsageTuple is still recorded by a visible usage_update
\* status with a new tuple, and by nothing else.
C38_SummariesOff ==
  /\ ~settings.shouldSendToolSummaries => NoToolKindCalls
  /\ SummariesOffEvent
       => /\ lastStatusHash = pre.lastStatusHash
          /\ lastToolHash = pre.lastToolHash
          /\ toolLifecycleById = pre.toolLifecycleById
          /\ emittedMetaEvents = pre.emittedMetaEvents
          /\ lastUsageTuple = IF NewUsageTuple THEN usageTupleOf(lastEvent)
                              ELSE pre.lastUsageTuple

\* with summaries off a visible usage_update status was dropped and its tuple
\* recorded
C38_Witness ==
  /\ SummariesOffEvent
  /\ NewUsageTuple
  /\ out = <<>>
  /\ lastUsageTuple # pre.lastUsageTuple
  /\ lastStatusHash = Undefined

\* the separator followed by the fragment of the last event
SeparatorPrefixed == SeparatorText \o lastEvent.text

\* what was left of the turn's budget when the last event arrived
RemainingBefore == settings.maxTurnChars - pre.emittedTurnChars

\* C39: when a separator is inserted before a fragment, the budget applies to
\* separator plus fragment: emittedTurnChars grows by the number of characters
\* accepted, separator characters included; when less than separator plus
\* fragment is left, the accepted text is the first `remaining` characters of
\* the separator-prefixed fragment and the truncation notice is triggered (its
\* latch is set); otherwise the whole separator-prefixed fragment is accepted.
C39_SeparatorInBudget ==
  sepInserted
  => /\ emittedTurnChars = pre.emittedTurnChars + Len(accepted)
     /\ emittedTurnChars <= settings.maxTurnChars
     /\ RemainingBefore < Len(SeparatorPrefixed)
          => /\ accepted = SubSeq(SeparatorPrefixed, 1, RemainingBefore)
             /\ truncationNoticeEmitted
     /\ RemainingBefore >= Len(SeparatorPrefixed)
          => accepted = SeparatorPrefixed

\* the budget ended inside the separator: only separator characters were
\* accepted, they were counted, and the notice was produced
C39_Witness ==
  /\ sepInserted
  /\ RemainingBefore > 0
  /\ RemainingBefore <= Len(SeparatorText)
  /\ accepted = SubSeq(SeparatorText, 1, RemainingBefore)
  /\ emittedTurnChars = settings.maxTurnChars
  /\ ~pre.truncationNoticeEmitted
  /\ truncationNoticeEmitted
  /\ settings.shouldSendToolSummaries
  /\ SelectSeq(Produced(out), LAMBDA c : c.src = "notice") # <<>>

\* calls of the client made by the last isDirectMessage
DmCallsOf(op) == SelectSeq(dmCheck.calls, LAMBDA c : c.op = op)

\* the member state of the sender of the checked message has is_direct true
SenderIsDirect ==
  /\ dmCheck.params.senderId # None
  /\ memberStateOf(matrixClient, TrimUserId(dmCheck.params.senderId)) = "direct"

\* the member state of the bot has is_direct true
BotIsDirect == memberStateOf(matrixClient, BotUserId) = "direct"

\* C31 as stated: isDirectMessage returns true if and only if dms.isDm(roomId)
\* holds or the member state of the sender or of the bot itself has is_direct
\* true; getJoinedRoomMembers is not called unless member-count logging is on.
C31_Original ==
  dmCheck.called
  => /\ dmCheck.result = (matrixClient.isDm \/ SenderIsDirect \/ BotIsDirect)
     /\ DmCallsOf("getJoinedRoomMembers") # <<>> => tracker.includeMemberCountInLogs

\* the id the tracker has for the bot during the last call: params.selfUserId,
\* else the cached id, else what getUserId answers (None when it rejects)
SelfUserIdUsed ==
  IF dmCheck.params.selfUserId # None THEN dmCheck.params.selfUserId
  ELSE IF dmCheck.before # None THEN dmCheck.before
  ELSE IF matrixClient.getUserId = "rejects" THEN None
  ELSE matrixClient.getUserId

\* the member state of the user the tracker takes for the bot has is_direct true
SelfIsDirect ==
  /\ SelfUserIdUsed # None
  /\ memberStateOf(matrixClient, TrimUserId(SelfUserIdUsed)) = "direct"

\* C31 (amended): isDirectMessage returns true if and only if dms.isDm(roomId)
\* holds or the member state of the sender, or of the user the tracker takes
\* for the bot (params.selfUserId, else the id obtained from getUserId; nobody
\* when neither yields an id), has is_direct true.  The number of members never
\* enters the result, and getJoinedRoomMembers is not called unless
\* member-count logging is on.
C31_DirectIff ==
  dmCheck.called
  => /\ dmCheck.result = (matrixClient.isDm \/ SenderIsDirect \/ SelfIsDirect)
     /\ DmCallsOf("getJoinedRoomMembers") # <<>> => tracker.includeMemberCountInLogs

\* a room of two members, neither m.direct nor flagged in the member states
\* that were looked up, was classified as a group without the members being
\* fetched
C31_Witness ==
  /\ dmCheck.called
  /\ ~tracker.includeMemberCountInLogs
  /\ matrixClient.members = 2
  /\ ~matrixClient.isDm
  /\ dmCheck.params.senderId = SenderUserId
  /\ Len(DmCallsOf("getRoomStateEvent")) = 2
  /\ DmCallsOf("getJoinedRoomMembers") = <<>>
  /\ dmCheck.result = FALSE

\* positions of the run's trace
TraceAt(op) == {i \in 1..Len(gwTrace) : gwTrace[i].op = op}

WritesAttempted == TraceAt("write")
AutoEnableWrites == {i \in WritesAttempted : gwTrace[i].what \in {"auto-enable", "auto-enable failed"}}
ValidationsPassed == {i \in TraceAt("validate") : gwTrace[i].what = "valid"}

\* C40: a run of prepareGatewayStartupConfig that returns, returns what a read of
\* the file found that came after every write the run attempted, and that a
\* validation after that read accepted; a snapshot that exists and is invalid
\* ends the run with an exception at the validation, and every auto-enable
\* write is preceded by a validation that passed; a failed auto-enable write
\* is followed by a warning and the run goes on to the last read; legacy
\* entries in Nix mode or a failed migration end the run with an exception and
\* no write.
C40_ReadAfterLastWrite ==
  /\ gwOutcome.kind = "returned"
       => \E r \in TraceAt("read") :
            /\ \A w \in WritesAttempted : w < r
            /\ gwTrace[r].content = gwOutcome.config
            /\ gwOutcome.config = configFile
            /\ \E v \in ValidationsPassed : v > r /\ gwTrace[v].content = gwOutcome.config
            /\ ~(gwOutcome.config.exists /\ ~gwOutcome.config.valid)
  /\ \A v \in TraceAt("validate") :
       (gwTrace[v].content.exists /\ ~gwTrace[v].content.valid)
         => /\ gwTrace[v].what = "invalid"
            /\ v = Len(gwTrace)
            /\ gwOutcome.kind = "threw"
  /\ \A w \in AutoEnableWrites :
       /\ \E v \in ValidationsPassed : v < w
       /\ \A v \in TraceAt("validate") : v < w => gwTrace[v].what = "valid"
  /\ \A w \in AutoEnableWrites :
       gwTrace[w].what = "auto-enable failed"
         => /\ w < Len(gwTrace) /\ gwTrace[w + 1].op = "warn"
            /\ gwPc \in {"reread", "done"}
            /\ gwPc = "done" => \E r \in TraceAt("read") : r > w
  /\ (gwOutcome.kind = "threw"
      /\ gwOutcome.error \in {"legacy entries in Nix mode", "auto-migration failed"})
       => WritesAttempted = {}

\* a run migrated the legacy entries, failed to persist the auto-enabled plugins,
\* and returned the migrated configuration it read last
C40_Witness ==
  /\ gwOutcome.kind = "returned"
  /\ gwOutcome.config.origin = "migration"
  /\ \E w \in AutoEnableWrites : gwTrace[w].what = "auto-enable failed"
  /\ Cardinality(TraceAt("read")) = 3
  /\ Cardinality(TraceAt("warn")) = 1

====
